---------------------------- MODULE Spec2Model ----------------------------
(***************************************************************************)
(* A model of the cs4 pipeline: the corpus pair samplers of                *)
(* cs4/utils/embedding_utils.py, the retrying stage units and batch loops  *)
(* of cs4/core/*.py, scripts/fit_constraints_direct.py and                 *)
(* scripts/coherence_eval.py, the text functions of the stages and of      *)
(* cs4/schemas.py, and the usage ledger of cs4/utils/llm_client.py.        *)
(*                                                                         *)
(* Similarities are cosine values in units of 1/10000 (0.4004 is 4004).    *)
(* Documents are numbered 0..n-1 as in the code.                           *)
(***************************************************************************)
EXTENDS Integers, Sequences, FiniteSets, TLC

(***************************************************************************)
(* Bounds of the model.                                                    *)
(***************************************************************************)
MaxDocs == 4
MaxPairsBound == 3

MaxRecords == 2
MaxRetry == 2
MaxSaveInterval == 2

(* size=min(50, ...) of np.random.choice in both samplers *)
SampleCap == 50

(* the similarities a corpus may hold, and the bands a caller may give *)
SimValues == {4004, 6000}
Bands == {<<4000, 5000>>, <<4004, 5000>>}

VARIABLES
    \* ---- sampler (find_dissimilar_pairs / find_dissimilar_pairs_distinct)
    mode,                 \* "plain" | "distinct" | "idle"
    n,                    \* len(sentences)
    sim,                  \* sim[<<a, b>>], a < b: dot of the normalized embeddings
    dissimilarity_lower,
    dissimilarity_upper,
    max_pairs,
    i,                    \* the outer loop's index
    pairs,                \* the list being built
    used_ids,             \* distinct mode only
    spc,                  \* "loop" | "done" | "idle"
    \* ---- a stage's batch run (the batch loop and the unit it calls)
    stage,                \* which batch loop runs
    retry_attempts,       \* self.retry_attempts
    has_instruction_num,  \* "instruction_number" is a column of the input(s)
    has_columns,          \* the columns the stage reads its texts from are columns of the input(s)
    deduplicate,          \* deduplicate_by_instruction (generate_batch)
    save_interval,        \* merge_pairs
    df,                   \* the input rows (constraints_df for the join stages)
    base_df,              \* the second input of fit_batch, replace_batch, the direct loop
    eval_df,              \* the third input of replace_batch
    work,                 \* the rows the loop iterates over
    cur,                  \* position of the current row in work
    attempt,              \* the unit's loop variable
    cur_log,              \* port outcomes of the current unit so far
    cur_sleeps,           \* sleeps of the current unit so far
    results,              \* the list the loop appends to
    unit_failed,          \* per appended row: the unit raised
    port_log,             \* per appended row: the port outcomes of its unit
    sleep_log,            \* per appended row: the sleeps of its unit
    file,                 \* the rows of the output file
    bpc,                  \* "start" | "loop" | "done" | "aborted" | "config_error" | "idle"
    \* ---- a call sequence on one of the text-processing functions
    fn,                   \* which function is called
    arg,                  \* the argument of the calls
    res,                  \* the results of the calls made so far, in order
    tpc,                  \* "call" | "idle"
    \* ---- the usage ledger (UsageTracker)
    usage_file,           \* the lines of api_usage.txt, each the list of its " | "-separated pieces
    file_exists,          \* api_usage.txt exists
    logged,               \* the calls of log_usage made so far, in order
    usage,                \* what the last call of get_total_usage returned, and after how many calls
    calls,                \* the service calls that returned, in order: provider, tokens
    lpc                   \* "run" | "idle"

svars == <<mode, n, sim, dissimilarity_lower, dissimilarity_upper, max_pairs,
           i, pairs, used_ids, spc>>

bvars == <<stage, retry_attempts, has_instruction_num, has_columns, deduplicate,
           save_interval,
           df, base_df, eval_df, work, cur, attempt, cur_log, cur_sleeps, results,
           unit_failed, port_log, sleep_log, file, bpc>>

tvars == <<fn, arg, res, tpc>>

lvars == <<usage_file, file_exists, logged, usage, calls, lpc>>

vars == <<svars, bvars, tvars, lvars>>

---------------------------------------------------------------------------
(***************************************************************************)
(* Helpers                                                                 *)
(***************************************************************************)
Min(a, b) == IF a <= b THEN a ELSE b

Range(s) == {s[k] : k \in 1..Len(s)}

PairsOf(m) == {p \in (0..(m - 1)) \X (0..(m - 1)) : p[1] < p[2]}

(* a choice with replacement: every sequence of k members *)
RECURSIVE WithReplacement(_, _)
WithReplacement(S, k) ==
    IF k = 0 THEN {<<>>}
    ELSE UNION {{<<x>> \o t : t \in WithReplacement(S, k - 1)} : x \in S}

(* np.random.choice(population, size=k, replace=False): every sequence of   *)
(* k different members of the population                                    *)
RECURSIVE Arrangements(_, _)
Arrangements(S, k) ==
    IF k = 0 THEN {<<>>}
    ELSE UNION {{<<x>> \o t : t \in Arrangements(S \ {x}, k - 1)} : x \in S}

(* float(np.dot(normalized_embeddings[i], normalized_embeddings[idx2])) *)
Similarity(a, b) == sim[<<a, b>>]

(* dissimilarity_lower <= similarity <= dissimilarity_upper *)
InBand(s) == dissimilarity_lower <= s /\ s <= dissimilarity_upper

(* round(similarity, 3): to a multiple of 10 units, ties to even *)
Round3(s) ==
    LET q == s \div 10
        r == s % 10
    IN  IF r < 5 THEN q * 10
        ELSE IF r > 5 THEN (q + 1) * 10
        ELSE IF q % 2 = 0 THEN q * 10 ELSE (q + 1) * 10

PairRecord(a, b, s) == [blog_1_id |-> a, blog_2_id |-> b, similarity |-> s]

---------------------------------------------------------------------------
(***************************************************************************)
(* The samplers                                                            *)
(***************************************************************************)

(* no text function is called while a sampler or a batch runs *)
TextIdle == fn = "idle" /\ arg = <<>> /\ res = <<>> /\ tpc = "idle"

(* what get_total_usage returns: the total and the per-provider totals;   *)
(* at is the number of log_usage calls made before it (0 - 1: not called) *)
Usage(at, total_tokens, by_provider) ==
    [at |-> at, total_tokens |-> total_tokens, by_provider |-> by_provider]

NoProviders == [p \in {} |-> 0]

(* the ledger is not used while a sampler, a batch or a call sequence runs *)
LedgerIdle ==
    /\ usage_file = <<>> /\ file_exists = FALSE /\ logged = <<>>
    /\ usage = Usage(0 - 1, 0, NoProviders) /\ calls = <<>> /\ lpc = "idle"

(* no batch runs while a sampler does *)
BatchIdle ==
    /\ stage = "idle" /\ retry_attempts = 0 /\ has_instruction_num = FALSE
    /\ has_columns = FALSE /\ deduplicate = FALSE /\ save_interval = 0
    /\ df = <<>> /\ base_df = <<>> /\ eval_df = <<>> /\ work = <<>>
    /\ cur = 0 /\ attempt = 0 /\ cur_log = <<>> /\ cur_sleeps = 0
    /\ results = <<>> /\ unit_failed = <<>> /\ port_log = <<>> /\ sleep_log = <<>>
    /\ file = <<>> /\ bpc = "idle"

(* the 6-document corpus in which 0&1, 2&3 and 4&5 are the only in-band pairs *)
Scenario6Sim ==
    [p \in PairsOf(6) |->
        IF p \in {<<0, 1>>, <<2, 3>>, <<4, 5>>} THEN 4500 ELSE 6000]

InitSampler ==
    /\ mode \in {"plain", "distinct"}
    /\ \/ /\ n \in 1..MaxDocs
          /\ sim \in [PairsOf(n) -> SimValues]
          /\ \E band \in Bands :
                /\ dissimilarity_lower = band[1]
                /\ dissimilarity_upper = band[2]
          /\ max_pairs \in 0..MaxPairsBound
       \/ /\ n = 6
          /\ sim = Scenario6Sim
          /\ dissimilarity_lower = 4000
          /\ dissimilarity_upper = 5000
          /\ max_pairs = 3
    /\ i = 0
    /\ pairs = <<>>
    /\ used_ids = {}
    /\ spc = "loop"
    /\ BatchIdle
    /\ TextIdle /\ LedgerIdle

(* the inner loop of find_dissimilar_pairs over candidates[k..], from pairs acc *)
RECURSIVE ScanPlain(_, _, _)
ScanPlain(candidates, k, acc) ==
    IF k > Len(candidates) THEN acc
    ELSE LET idx2 == candidates[k]
             similarity == Similarity(i, idx2)
         IN  IF InBand(similarity)
             THEN LET acc2 == Append(acc, PairRecord(i, idx2, similarity))
                  IN  IF Len(acc2) >= max_pairs THEN acc2
                      ELSE ScanPlain(candidates, k + 1, acc2)
             ELSE ScanPlain(candidates, k + 1, acc)

(* find_dissimilar_pairs: `if i + 1 >= len(sentences): break`, or the range ends *)
PlainEnd ==
    /\ mode = "plain" /\ spc = "loop"
    /\ i + 1 >= n
    /\ spc' = "done"
    /\ UNCHANGED <<mode, n, sim, dissimilarity_lower, dissimilarity_upper,
                   max_pairs, i, pairs, used_ids, bvars, tvars, lvars>>

(* find_dissimilar_pairs: one iteration of the outer loop *)
PlainStep ==
    /\ mode = "plain" /\ spc = "loop"
    /\ i + 1 < n
    /\ \E candidates \in Arrangements((i + 1)..(n - 1), Min(SampleCap, n - i - 1)) :
          /\ pairs' = ScanPlain(candidates, 1, pairs)
          /\ IF Len(pairs') >= max_pairs
             THEN spc' = "done" /\ i' = i
             ELSE spc' = "loop" /\ i' = i + 1
    /\ UNCHANGED <<mode, n, sim, dissimilarity_lower, dissimilarity_upper,
                   max_pairs, used_ids, bvars, tvars, lvars>>

(* a scan that takes the first candidate without the band test *)
FirstCandidate(candidates, k) == candidates[k]

(* a scan that tests the first candidate only *)
FirstOnly(candidates, k) ==
    IF InBand(Similarity(i, candidates[k])) THEN candidates[k] ELSE -1

(* the inner loop of find_dissimilar_pairs_distinct: the first in-band       *)
(* candidate, 0 - 1 when there is none                                       *)
RECURSIVE FirstInBand(_, _)
FirstInBand(candidates, k) ==
    IF k > Len(candidates) THEN -1
    ELSE IF InBand(Similarity(i, candidates[k])) THEN candidates[k]
    ELSE FirstInBand(candidates, k + 1)

(* find_dissimilar_pairs_distinct: the range is exhausted *)
DistinctExhausted ==
    /\ mode = "distinct" /\ spc = "loop"
    /\ i >= n
    /\ spc' = "done"
    /\ UNCHANGED <<mode, n, sim, dissimilarity_lower, dissimilarity_upper,
                   max_pairs, i, pairs, used_ids, bvars, tvars, lvars>>

(* `if len(pairs) >= max_pairs: break` at the top of the loop *)
DistinctBreakTop ==
    /\ mode = "distinct" /\ spc = "loop"
    /\ i < n
    /\ Len(pairs) >= max_pairs
    /\ spc' = "done"
    /\ UNCHANGED <<mode, n, sim, dissimilarity_lower, dissimilarity_upper,
                   max_pairs, i, pairs, used_ids, bvars, tvars, lvars>>

(* `if i in used_ids: continue` *)
DistinctSkipUsed ==
    /\ mode = "distinct" /\ spc = "loop"
    /\ i < n
    /\ Len(pairs) < max_pairs
    /\ i \in used_ids
    /\ i' = i + 1
    /\ UNCHANGED <<mode, n, sim, dissimilarity_lower, dissimilarity_upper,
                   max_pairs, pairs, used_ids, spc, bvars, tvars, lvars>>

(* marking only the first document of a pair *)
MarkFirstOnly(a, b) == used_ids \cup {a}

(* used_ids.add(i); used_ids.add(idx2) *)
MarkUsed(a, b) == used_ids \cup {a, b}

(* candidates drawn from every later document, used or not *)
AllLater == (i + 1)..(n - 1)

(* j for j in range(i + 1, len(sentences)) if j not in used_ids *)
AvailableCandidates == {j \in (i + 1)..(n - 1) : j \notin used_ids}

(* `if not available_candidates: continue` *)
DistinctNoCandidates ==
    /\ mode = "distinct" /\ spc = "loop"
    /\ i < n
    /\ Len(pairs) < max_pairs
    /\ i \notin used_ids
    /\ AvailableCandidates = {}
    /\ i' = i + 1
    /\ UNCHANGED <<mode, n, sim, dissimilarity_lower, dissimilarity_upper,
                   max_pairs, pairs, used_ids, spc, bvars, tvars, lvars>>

(* one iteration that samples candidates and scans them *)
DistinctStep ==
    /\ mode = "distinct" /\ spc = "loop"
    /\ i < n
    /\ Len(pairs) < max_pairs
    /\ i \notin used_ids
    /\ AvailableCandidates # {}
    /\ \E candidates \in Arrangements(AvailableCandidates,
                            Min(SampleCap, Cardinality(AvailableCandidates))) :
          LET idx2 == FirstInBand(candidates, 1)
          IN  IF idx2 = -1
              THEN /\ pairs' = pairs
                   /\ used_ids' = used_ids
              ELSE /\ pairs' = Append(pairs,
                          PairRecord(i, idx2, Round3(Similarity(i, idx2))))
                   /\ used_ids' = MarkUsed(i, idx2)
    /\ IF Len(pairs') >= max_pairs
       THEN spc' = "done" /\ i' = i
       ELSE spc' = "loop" /\ i' = i + 1
    /\ UNCHANGED <<mode, n, sim, dissimilarity_lower, dissimilarity_upper,
                   max_pairs, bvars, tvars, lvars>>

NextSampler ==
    \/ PlainEnd
    \/ PlainStep
    \/ DistinctExhausted
    \/ DistinctBreakTop
    \/ DistinctSkipUsed
    \/ DistinctNoCandidates
    \/ DistinctStep

SpecSampler == InitSampler /\ [][NextSampler]_vars

(* the loops are plain for loops: a run that can take a step takes it *)
SpecSamplerFair == InitSampler /\ [][NextSampler]_vars /\ WF_vars(NextSampler)

---------------------------------------------------------------------------
(***************************************************************************)
(* Claims about the samplers (checked under SpecSampler)                   *)
(***************************************************************************)
IdsOf(p) == {p.blog_1_id, p.blog_2_id}

(* C1: in find_dissimilar_pairs_distinct, after every loop step and at     *)
(* return, no document id occurs in more than one emitted pair.            *)
C1_DistinctIds ==
    mode = "distinct" =>
        \A k, l \in 1..Len(pairs) :
            k # l => IdsOf(pairs[k]) \cap IdsOf(pairs[l]) = {}

(* C1 witness: a distinct-mode run that returned two pairs *)
C1_Witness == mode = "distinct" /\ spc = "done" /\ Len(pairs) >= 2

(* C2: both samplers return at most max_pairs pairs, for every             *)
(* max_pairs >= 0 including 0.                                             *)
C2_AtMostMaxPairs == spc = "done" => Len(pairs) <= max_pairs

(* C3: every pair returned by the distinct-mode sampler carries a recorded *)
(* similarity within [lower, upper].                                       *)
C3_RecordedInBand ==
    mode = "distinct" =>
        \A k \in 1..Len(pairs) :
            /\ dissimilarity_lower <= pairs[k].similarity
            /\ pairs[k].similarity <= dissimilarity_upper

IsScenario6 == n = 6 /\ sim = Scenario6Sim /\ max_pairs = 3

(* C4: on the 6-document corpus where 0&1, 2&3, 4&5 are the only in-band   *)
(* pairs and max_pairs = 3, the distinct-mode sampler returns exactly      *)
(* (0,1), (2,3), (4,5), whatever the order of the candidates.              *)
C4_Scenario6Pairs ==
    (mode = "distinct" /\ IsScenario6 /\ spc = "done") =>
        /\ Len(pairs) = 3
        /\ \A k \in 1..3 :
              /\ pairs[k].blog_1_id = 2 * (k - 1)
              /\ pairs[k].blog_2_id = 2 * (k - 1) + 1
        /\ \A k, l \in 1..3 : k # l => IdsOf(pairs[k]) \cap IdsOf(pairs[l]) = {}

(* C4 witness: the scenario run has returned *)
C4_Witness == mode = "distinct" /\ IsScenario6 /\ spc = "done" /\ Len(pairs) = 3

---------------------------------------------------------------------------
(***************************************************************************)
(* The stage units and batch loops.                                        *)
(*                                                                         *)
(* A stage is "merge" (BlogMerger), "cgen" (ConstraintGenerator), "ccgen"  *)
(* (CommonConstraintGenerator), "base" (BaseGenerator), "fit"              *)
(* (ConstraintFitter), "replace" (ConstraintReplacer), "summarize"         *)
(* (ContentSummarizer), "evaluate" (ConstraintEvaluator), "pairwise"       *)
(* (QualityEvaluator), "direct" (the loop of fit_constraints_direct),      *)
(* "coh_revise" or "coh_eval" (the revision and the evaluation loop of     *)
(* coherence_eval).                                                        *)
(* The port is the generation service: a call raises, or returns a text    *)
(* (which the stage's parser can or cannot parse) and a token count.       *)
(* An input row holds its instruction_number, whether its content cell is  *)
(* a string (a missing cell is read back as a float NaN; coherence_eval    *)
(* reads it as the empty string), the tokens_used                          *)
(* cell it carries (0 - 1: none) and, for the pairwise stage, its          *)
(* subset_size.                                                            *)
(***************************************************************************)
CoreStages == {"merge", "cgen", "ccgen", "base", "fit", "replace", "summarize",
               "evaluate", "pairwise"}

Stages == CoreStages \cup {"direct", "coh_revise", "coh_eval"}

(* the stages whose unit parses the response *)
HasParser == {"cgen", "ccgen", "replace", "evaluate", "pairwise", "coh_eval"}

(* baseline_subset: int = 23 *)
BaselineSubset == 23

(* MAX_REDO = 3 *)
MaxRedo == 3

Ids == {1, 2}
TokenValues == {7}
InputTokens == {-1, 9}

SamplerIdle ==
    /\ mode = "idle" /\ n = 0 /\ sim = <<>>
    /\ dissimilarity_lower = 0 /\ dissimilarity_upper = 0 /\ max_pairs = 0
    /\ i = 0 /\ pairs = <<>> /\ used_ids = {} /\ spc = "idle"

InRec(id, str, tok, sub) ==
    [instruction_number |-> id, is_str |-> str, tokens_in |-> tok,
     subset_size |-> sub, pos |-> 0]

(* a DataFrame's default RangeIndex: idx + 1 is the row's position *)
Renumber(rows) == [j \in 1..Len(rows) |-> [rows[j] EXCEPT !.pos = j]]

SeqsOf(S, lo, hi) == UNION {[1..len -> S] : len \in lo..hi}

RECURSIVE SortSet(_)
SortSet(S) ==
    IF S = {} THEN <<>>
    ELSE LET m == CHOOSE x \in S : \A y \in S : x <= y
         IN  <<m>> \o SortSet(S \ {m})

PlainRecs == {InRec(id, TRUE, -1, 0) : id \in Ids}
ContentRecs == {InRec(id, str, tok, 0) : id \in Ids, str \in BOOLEAN, tok \in InputTokens}
TokenRecs == {InRec(id, TRUE, tok, 0) : id \in Ids, tok \in InputTokens}
CellRecs == {InRec(id, str, -1, 0) : id \in Ids, str \in BOOLEAN}

(* the rows of a pairwise input: baseline rows for B, comparison rows for C *)
PairwiseDf(B, C) ==
    [j \in 1..Cardinality(B) |-> InRec(SortSet(B)[j], TRUE, -1, BaselineSubset)]
    \o [j \in 1..Cardinality(C) |-> InRec(SortSet(C)[j], TRUE, -1, 7)]

(* pd.merge(left, right, on="instruction_number"): an inner join in the   *)
(* order of the left rows; the content cell is the right row's            *)
RECURSIVE Join(_, _)
Join(left, right) ==
    IF left = <<>> THEN <<>>
    ELSE LET l == Head(left)
             m == SelectSeq(right, LAMBDA r : r.instruction_number = l.instruction_number)
         IN  [j \in 1..Len(m) |-> [l EXCEPT !.is_str = m[j].is_str]]
             \o Join(Tail(left), right)

(* df["instruction_number"].duplicated().any() *)
HasDuplicates(rows) ==
    \E a, b \in 1..Len(rows) :
        a < b /\ rows[a].instruction_number = rows[b].instruction_number

(* a deduplication that keeps every row *)
KeepAllRows(rows, seen) == rows

(* df.drop_duplicates(subset=["instruction_number"]) *)
RECURSIVE DropDuplicates(_, _)
DropDuplicates(rows, seen) ==
    IF rows = <<>> THEN <<>>
    ELSE IF Head(rows).instruction_number \in seen
         THEN DropDuplicates(Tail(rows), seen)
         ELSE <<Head(rows)>>
              \o DropDuplicates(Tail(rows), seen \cup {Head(rows).instruction_number})

(* needs_deduplication of generate_batch *)
NeedsDeduplication ==
    stage = "base" /\ deduplicate /\ has_instruction_num /\ HasDuplicates(df)

IdsIn(rows) == {rows[j].instruction_number : j \in 1..Len(rows)}

(* evaluate_batch_pairwise: the comparisons that are evaluated, in the    *)
(* order of the sorted instruction numbers; an instruction without a      *)
(* baseline row or without a comparison row is skipped with a warning     *)
PairwiseWork ==
    LET withBase == {r.instruction_number :
                        r \in {df[j] : j \in {m \in 1..Len(df) : df[m].subset_size = BaselineSubset}}}
        withComp == {r.instruction_number :
                        r \in {df[j] : j \in {m \in 1..Len(df) : df[m].subset_size # BaselineSubset}}}
        kept == SortSet(withBase \cap withComp)
    IN  [j \in 1..Len(kept) |-> InRec(kept[j], TRUE, -1, 7)]

(* a pairing that keeps every row of the left frame *)
PairedByLeft(left, right) == [j \in 1..Len(left) |-> [left[j] EXCEPT !.pos = j]]

(* two frames paired by position over the first min(len) rows of each *)
Paired(left, right) ==
    LET min_len == Min(Len(left), Len(right))
    IN  [j \in 1..min_len |->
            [left[j] EXCEPT !.is_str = right[j].is_str, !.pos = j]]

(* the rows a batch loop iterates over *)
WorkList ==
    CASE stage \in {"fit"} -> Renumber(Join(df, base_df))
      [] stage = "replace" -> Renumber(Join(Join(df, base_df), eval_df))
      [] stage = "direct" ->
            IF has_instruction_num
            THEN Renumber(Join(df, base_df))
            ELSE Paired(df, base_df)
      [] stage = "coh_eval" -> Paired(df, base_df)
      [] stage = "base" ->
            IF NeedsDeduplication THEN DropDuplicates(Renumber(df), {})
            ELSE Renumber(df)
      [] stage = "pairwise" -> Renumber(PairwiseWork)
      [] OTHER -> Renumber(df)

(* the inputs a stage may be given *)
InputsOf(st) ==
    CASE st = "merge" ->
            [df : SeqsOf(PlainRecs, 1, MaxRecords), base_df : {<<>>}, eval_df : {<<>>},
             has : {FALSE}, dedup : {FALSE}, save : 1..MaxSaveInterval]
      [] st \in {"cgen", "ccgen", "evaluate"} ->
            [df : SeqsOf(PlainRecs, 1, MaxRecords), base_df : {<<>>}, eval_df : {<<>>},
             has : BOOLEAN, dedup : {FALSE}, save : {0}]
      [] st = "base" ->
            [df : SeqsOf(PlainRecs, 1, MaxRecords + 1), base_df : {<<>>}, eval_df : {<<>>},
             has : BOOLEAN, dedup : BOOLEAN, save : {0}]
      [] st = "summarize" ->
            [df : SeqsOf(ContentRecs, 1, MaxRecords), base_df : {<<>>}, eval_df : {<<>>},
             has : BOOLEAN, dedup : {FALSE}, save : {0}]
      [] st = "fit" ->
            [df : SeqsOf(PlainRecs, 1, MaxRecords),
             base_df : SeqsOf(PlainRecs, 0, MaxRecords), eval_df : {<<>>},
             has : BOOLEAN, dedup : {FALSE}, save : {0}]
      [] st = "replace" ->
            [df : SeqsOf(PlainRecs, 1, MaxRecords),
             base_df : SeqsOf(PlainRecs, 0, MaxRecords),
             eval_df : SeqsOf(PlainRecs, 0, MaxRecords),
             has : BOOLEAN, dedup : {FALSE}, save : {0}]
      [] st = "direct" ->
            [df : SeqsOf(TokenRecs, 1, MaxRecords),
             base_df : SeqsOf(CellRecs, 0, MaxRecords), eval_df : {<<>>},
             has : BOOLEAN, dedup : {FALSE}, save : {0}]
      [] st = "pairwise" ->
            {[df |-> PairwiseDf(B, C), base_df |-> <<>>, eval_df |-> <<>>,
              has |-> h, dedup |-> FALSE, save |-> 0] :
                B \in SUBSET Ids, C \in ((SUBSET Ids) \ {{}}), h \in BOOLEAN}
      [] st = "coh_revise" ->
            [df : SeqsOf(CellRecs, 1, MaxRecords), base_df : {<<>>}, eval_df : {<<>>},
             has : {TRUE}, dedup : {FALSE}, save : {0}]
      [] st = "coh_eval" ->
            [df : SeqsOf({InRec(1, TRUE, -1, 0)}, 1, MaxRecords),
             base_df : SeqsOf({InRec(1, TRUE, -1, 0)}, 0, MaxRecords), eval_df : {<<>>},
             has : BOOLEAN, dedup : {FALSE}, save : {0}]

(* the attempts a unit may make: self.retry_attempts in the core stages    *)
(* and the direct script, range(MAX_REDO) in the evaluation loop of        *)
(* coherence_eval, one call of revise_article in its revision loop         *)
AttemptBudgets(st) ==
    CASE st = "coh_eval" -> {MaxRedo}
      [] st = "coh_revise" -> {1}
      [] OTHER -> 0..MaxRetry

InitBatch ==
    /\ SamplerIdle
    /\ TextIdle /\ LedgerIdle
    /\ stage \in Stages
    /\ retry_attempts \in AttemptBudgets(stage)
    /\ \E inp \in InputsOf(stage) :
          /\ df = inp.df /\ base_df = inp.base_df /\ eval_df = inp.eval_df
          /\ has_instruction_num = inp.has
          /\ has_columns \in (IF stage \in {"coh_revise", "coh_eval"} THEN {TRUE} ELSE BOOLEAN)
          /\ deduplicate = inp.dedup
          /\ save_interval = inp.save
    /\ work = <<>> /\ cur = 0 /\ attempt = 0
    /\ cur_log = <<>> /\ cur_sleeps = 0
    /\ results = <<>> /\ unit_failed = <<>> /\ port_log = <<>> /\ sleep_log = <<>>
    /\ file = <<>>
    /\ bpc = "start"

(* the checks a batch entry point makes before its loop: the join key     *)
(* must be a column, and the pairwise baseline subset must occur          *)
MissingJoinKey ==
    \/ stage \in {"fit", "replace", "pairwise"} /\ ~has_instruction_num
    \/ stage = "pairwise"
          /\ \A j \in 1..Len(df) : df[j].subset_size # BaselineSubset

(* the columns an entry point checks before its loop (the direct script    *)
(* exits on them); fit_batch and replace_batch check none of theirs        *)
MissingColumn == stage \notin {"fit", "replace"} /\ ~has_columns

(* a loop that finds its columns in every row *)
RowLookupNeverRaises == FALSE

(* fit_batch raises ValueError and replace_batch KeyError when a joined    *)
(* row lacks the column, in the loop body before the try                   *)
RowLookupRaises == stage \in {"fit", "replace"} /\ ~has_columns

(* the entry point raises before its loop *)
BatchConfigError ==
    /\ bpc = "start"
    /\ MissingJoinKey \/ MissingColumn
    /\ bpc' = "config_error"
    /\ UNCHANGED <<stage, retry_attempts, has_instruction_num, has_columns,
                   deduplicate, save_interval, df, base_df, eval_df, work, cur, attempt, cur_log,
                   cur_sleeps, results, unit_failed, port_log, sleep_log, file>>
    /\ UNCHANGED <<svars, tvars, lvars>>

(* the entry point joins its inputs and enters its loop *)
BatchStart ==
    /\ bpc = "start"
    /\ ~MissingJoinKey /\ ~MissingColumn
    /\ Len(WorkList) <= MaxRecords
    /\ work' = WorkList
    /\ cur' = 1
    /\ attempt' = 1
    /\ bpc' = "loop"
    /\ UNCHANGED <<stage, retry_attempts, has_instruction_num, has_columns,
                   deduplicate, save_interval, df, base_df, eval_df, cur_log, cur_sleeps,
                   results, unit_failed, port_log, sleep_log, file>>
    /\ UNCHANGED <<svars, tvars, lvars>>

binputs == <<stage, retry_attempts, has_instruction_num, has_columns, deduplicate,
           save_interval,
             df, base_df, eval_df, work>>

(* a loop that takes the rows from the last to the first *)
LastItemFirst == work[Len(work) + 1 - cur]

(* for idx, row in df.iterrows(): the row the loop is at *)
CurItem == work[cur]

(* if not base_article *)
RowSkipped == stage = "coh_revise" /\ ~CurItem.is_str

(* the loop is at a row whose columns it has found *)
InUnit == bpc = "loop" /\ cur <= Len(work) /\ ~RowLookupRaises /\ ~RowSkipped

(* the loop body raises before its try: the entry point raises *)
RowLookupError ==
    /\ bpc = "loop" /\ cur <= Len(work)
    /\ RowLookupRaises
    /\ bpc' = "config_error"
    /\ UNCHANGED <<cur, attempt, cur_log, cur_sleeps, results, unit_failed,
                   port_log, sleep_log, file>>
    /\ UNCHANGED binputs
    /\ UNCHANGED <<svars, tvars, lvars>>

(* a loop that runs one attempt too many *)
InRangeOneMore(a) == a <= retry_attempts + 1

(* for attempt in range(1, self.retry_attempts + 1) *)
InRange(a) == a <= retry_attempts

(* a unit that sleeps and goes on after its last attempt too *)
SleepsAfterLast(a) == a <= retry_attempts

(* if attempt < self.retry_attempts: sleep(self.delay) else: raise *)
MoreAttempts(a) == a < retry_attempts

(* the instruction_number a loop writes into the row of an item *)
OutId(item) ==
    CASE stage = "cgen" -> item.pos
      [] stage \in {"ccgen", "base", "evaluate"} ->
            IF has_instruction_num THEN item.instruction_number ELSE item.pos
      [] stage \in {"fit", "replace", "pairwise"} -> item.instruction_number
      [] stage \in {"summarize", "direct", "coh_revise", "coh_eval"} ->
            IF has_instruction_num THEN item.instruction_number ELSE 0
      [] OTHER -> 0

(* the row appended after the unit returned *)
SuccessRow(item, tokens, parseable) ==
    [instruction_number |-> OutId(item),
     content |-> IF ~parseable /\ stage \in {"cgen", "ccgen", "replace"}
                 THEN "" ELSE "gen",
     tokens_used |-> tokens,
     error |-> FALSE,
     parsed |-> parseable]

(* the row appended by the loop's except branch *)
FailureRow(item) ==
    IF stage \in {"summarize", "direct"}
    THEN [instruction_number |-> OutId(item),
          content |-> IF item.is_str THEN "orig" ELSE "nan",
          tokens_used |-> item.tokens_in,
          error |-> TRUE,
          parsed |-> FALSE]
    ELSE [instruction_number |-> OutId(item),
          content |-> "",
          tokens_used |-> 0,
          error |-> FALSE,
          parsed |-> FALSE]

(* summarize_content: len(content) in the usage log, inside the try, after *)
(* the port returned                                                       *)
UnitPostRaises(item) == stage = "summarize" /\ ~item.is_str

(* the direct loop: len(merged_content) while the row is built, inside the *)
(* loop's try                                                              *)
RowBuildRaises(item) == stage = "direct" /\ ~item.is_str

(* summarize_batch: len(content) inside the except branch *)
HandlerRaises(item) == stage = "summarize" /\ ~item.is_str

(* every parsing unit retries a response it cannot parse *)
RetriesOnNoParseEverywhere == stage \in HasParser

(* a unit that returns an unparseable response at once *)
NeverRetriesOnNoParse == FALSE

(* evaluate_pair and the evaluation loop of coherence_eval: a response     *)
(* parsed to None is retried                                               *)
RetriesOnNoParse == stage \in {"pairwise", "coh_eval"}

(* a loop that writes its file only after the last record *)
SavesNever(item) == FALSE

(* the incremental saves: merge_pairs every save_interval rows,            *)
(* evaluate_batch_pairwise after every comparison                          *)
SavesAfter(item) ==
    \/ stage = "merge" /\ item.pos % save_interval = 0
    \/ stage = "pairwise"

(* the evaluation loop of coherence_eval sleeps in its except branch,      *)
(* after the last attempt as after any other                               *)
FinalSleep(log) ==
    IF stage = "coh_eval" /\ log # <<>> /\ log[Len(log)] = "raise" THEN 1 ELSE 0

(* the sleep before a retry after an unparseable response: evaluate_pair   *)
(* sleeps, the evaluation loop of coherence_eval does not                  *)
NoParseSleep == IF stage = "coh_eval" THEN 0 ELSE 1

(* the row of the evaluation loop of coherence_eval when no attempt parsed: *)
(* the text and the tokens of the last call that returned, if any          *)
UnparsedRow(item, log) ==
    LET returned == \E p \in 1..Len(log) : log[p] # "raise"
    IN  [instruction_number |-> OutId(item),
         content |-> IF returned THEN "gen" ELSE "",
         tokens_used |-> IF returned THEN CHOOSE t \in TokenValues : TRUE ELSE 0,
         error |-> FALSE,
         parsed |-> FALSE]

(* the loop appends a row and goes on to the next item *)
Complete(row, failed, log) ==
    /\ results' = Append(results, row)
    /\ unit_failed' = Append(unit_failed, failed)
    /\ port_log' = Append(port_log, log)
    /\ sleep_log' = Append(sleep_log, cur_sleeps + FinalSleep(log))
    /\ file' = IF SavesAfter(CurItem) THEN Append(results, row) ELSE file
    /\ cur' = cur + 1
    /\ attempt' = 1
    /\ cur_log' = <<>>
    /\ cur_sleeps' = 0
    /\ bpc' = bpc

(* the unit raised: the loop's except branch *)
HandleFailure(log) ==
    IF HandlerRaises(CurItem)
    THEN /\ bpc' = "aborted"
         /\ cur_log' = log
         /\ UNCHANGED <<cur, attempt, cur_sleeps, results, unit_failed, port_log,
                        sleep_log, file>>
    ELSE IF stage = "coh_eval"
         THEN Complete(UnparsedRow(CurItem, log), FALSE, log)
         ELSE Complete(FailureRow(CurItem), TRUE, log)

(* an except branch that goes on to the next attempt without a delay *)
RetryWithoutDelay(log) ==
    IF MoreAttempts(attempt)
    THEN /\ attempt' = attempt + 1
         /\ cur_log' = log
         /\ UNCHANGED <<cur, cur_sleeps, results, unit_failed, port_log, sleep_log,
                        file, bpc>>
    ELSE HandleFailure(log)

(* the unit's except branch *)
RetryOrFail(log) ==
    IF MoreAttempts(attempt)
    THEN /\ attempt' = attempt + 1
         /\ cur_log' = log
         /\ cur_sleeps' = cur_sleeps + 1
         /\ UNCHANGED <<cur, results, unit_failed, port_log, sleep_log, file, bpc>>
    ELSE HandleFailure(log)

(* the revision loop of coherence_eval appends an empty row for an empty   *)
(* article and continues, without a call                                   *)
SkipRow ==
    /\ bpc = "loop" /\ cur <= Len(work)
    /\ RowSkipped
    /\ Complete(FailureRow(CurItem), FALSE, <<>>)
    /\ UNCHANGED binputs
    /\ UNCHANGED <<svars, tvars, lvars>>

(* the unit's loop makes no attempt (retry_attempts is 0): RuntimeError *)
UnitNoAttempt ==
    /\ InUnit
    /\ ~InRange(attempt)
    /\ HandleFailure(cur_log)
    /\ UNCHANGED binputs
    /\ UNCHANGED <<svars, tvars, lvars>>

(* an attempt whose port call raises *)
PortRaises ==
    /\ InUnit
    /\ InRange(attempt)
    /\ RetryOrFail(Append(cur_log, "raise"))
    /\ UNCHANGED binputs
    /\ UNCHANGED <<svars, tvars, lvars>>

(* the unit returned (parsed, tokens): the loop builds the row *)
UnitReturns(tokens, parseable, log) ==
    IF RowBuildRaises(CurItem)
    THEN Complete(FailureRow(CurItem), FALSE, log)
    ELSE Complete(SuccessRow(CurItem, tokens, parseable), FALSE, log)

(* an attempt whose port call returns a text the stage can use *)
PortReturns ==
    /\ InUnit
    /\ InRange(attempt)
    /\ \E tokens \in TokenValues :
          IF UnitPostRaises(CurItem)
          THEN RetryOrFail(Append(cur_log, "ok"))
          ELSE UnitReturns(tokens, TRUE, Append(cur_log, "ok"))
    /\ UNCHANGED binputs
    /\ UNCHANGED <<svars, tvars, lvars>>

(* an attempt whose port call returns a text the stage's parser cannot parse *)
PortReturnsUnparseable ==
    /\ InUnit
    /\ stage \in HasParser
    /\ InRange(attempt)
    /\ \E tokens \in TokenValues :
          IF RetriesOnNoParse /\ MoreAttempts(attempt)
          THEN /\ attempt' = attempt + 1
               /\ cur_log' = Append(cur_log, "noparse")
               /\ cur_sleeps' = cur_sleeps + NoParseSleep
               /\ UNCHANGED <<cur, results, unit_failed, port_log, sleep_log,
                              file, bpc>>
          ELSE UnitReturns(tokens, FALSE, Append(cur_log, "noparse"))
    /\ UNCHANGED binputs
    /\ UNCHANGED <<svars, tvars, lvars>>

(* generate_batch with deduplication: df.merge(base_df, how="left") *)
MergeBack ==
    [j \in 1..Len(df) |->
        LET m == SelectSeq(results,
                    LAMBDA r : r.instruction_number = df[j].instruction_number)
        IN  m[1]]

(* the loop is over: the result is written to output_path and returned *)
BatchFinish ==
    /\ bpc = "loop" /\ cur > Len(work)
    /\ bpc' = "done"
    /\ file' = IF stage = "pairwise" THEN file
               ELSE IF NeedsDeduplication THEN MergeBack
               ELSE results
    /\ UNCHANGED <<cur, attempt, cur_log, cur_sleeps, results, unit_failed,
                   port_log, sleep_log>>
    /\ UNCHANGED binputs
    /\ UNCHANGED <<svars, tvars, lvars>>

NextBatch ==
    \/ BatchConfigError
    \/ BatchStart
    \/ RowLookupError
    \/ SkipRow
    \/ UnitNoAttempt
    \/ PortRaises
    \/ PortReturns
    \/ PortReturnsUnparseable
    \/ BatchFinish

SpecBatch == InitBatch /\ [][NextBatch]_vars

(* the batches whose runs are followed to their end: every stage, every   *)
(* retry_attempts, rows of one instruction number, at most one row in the  *)
(* second and the third input                                              *)
InitBatchFair ==
    /\ InitBatch
    /\ \A j \in 1..Len(df) : df[j].instruction_number = 1 /\ df[j].tokens_in = 0 - 1
    /\ Len(base_df) <= 1 /\ Len(eval_df) <= 1
    /\ ~deduplicate /\ save_interval <= 1

(* the loops are synchronous code: a port call returns or raises, and the  *)
(* statement after it runs                                                 *)
SpecBatchFair == InitBatchFair /\ [][NextBatch]_vars /\ WF_vars(NextBatch)

---------------------------------------------------------------------------
(***************************************************************************)
(* Claims about the stage units and batch loops (checked under SpecBatch)  *)
(***************************************************************************)
AllRaise(log) == \A p \in 1..Len(log) : log[p] = "raise"

Terminated == bpc \in {"done", "aborted"}

(* the index in results of the unit that produced row j of the file *)
SourceIndex(j) ==
    IF NeedsDeduplication
    THEN CHOOSE m \in 1..Len(results) :
            results[m].instruction_number = df[j].instruction_number
    ELSE j

(* C5: with a port that raises on every call, each record's unit of the    *)
(* base generator makes exactly retry_attempts port calls (also for        *)
(* retry_attempts = 0), the batch loop writes a row with empty content and *)
(* tokens_used = 0 for it, and the output has as many rows as the input.   *)
C5_RetryExhaustion ==
    stage = "base" =>
        /\ AllRaise(cur_log) => Len(cur_log) <= retry_attempts
        /\ \A j \in 1..Len(results) :
              AllRaise(port_log[j]) =>
                  /\ Len(port_log[j]) = retry_attempts
                  /\ results[j].content = ""
                  /\ results[j].tokens_used = 0
        /\ (bpc = "done" /\ \A j \in 1..Len(port_log) : AllRaise(port_log[j])) =>
              /\ Len(file) = Len(df)
              /\ \A j \in 1..Len(file) :
                    file[j].content = "" /\ file[j].tokens_used = 0

(* C5 witness: a base batch of two records returned after every port call *)
(* raised, retry_attempts calls each                                      *)
C5_Witness ==
    /\ stage = "base" /\ bpc = "done" /\ retry_attempts = 2
    /\ Len(df) = 2 /\ Len(file) = 2
    /\ \A j \in 1..Len(port_log) : port_log[j] = <<"raise", "raise">>

(* C6: in evaluate_pair, attempts that raise and attempts whose response   *)
(* parses to the no-result sentinel draw on one budget: at most            *)
(* retry_attempts port calls per unit, and an unparseable response is      *)
(* followed by another attempt exactly when attempts remain.               *)
C6_SharedBudget ==
    stage = "pairwise" =>
        /\ Len(cur_log) <= retry_attempts
        /\ \A p \in 1..Len(cur_log) : p < retry_attempts
        /\ \A j \in 1..Len(port_log) :
              /\ Len(port_log[j]) <= retry_attempts
              /\ \A p \in 1..Len(port_log[j]) :
                    port_log[j][p] = "noparse" =>
                        (p < Len(port_log[j]) <=> p < retry_attempts)

(* C6 witness: a unit that spent one attempt on a raise and the last on an *)
(* unparseable response, and returned the sentinel                         *)
C6_Witness ==
    /\ stage = "pairwise" /\ retry_attempts = 2
    /\ \E j \in 1..Len(port_log) :
          /\ port_log[j] = <<"raise", "noparse">>
          /\ ~results[j].parsed
          /\ results[j].tokens_used # 0

(* C7: in every stage batch loop a record whose unit exhausts its retries  *)
(* is recorded, every later record is processed and the loop returns       *)
(* normally: a single-record failure never aborts the batch.               *)
C7_NeverAborts ==
    /\ bpc # "aborted"
    /\ bpc = "done" => Len(results) = Len(work)

(* C8: in every stage, a record whose unit failed after exhausting its     *)
(* retries appears in the persisted output with its generated-content      *)
(* field empty and its token count zero.                                   *)
C8_FailedRowsEmpty ==
    bpc = "done" =>
        \A j \in 1..Len(file) :
            unit_failed[SourceIndex(j)] =>
                file[j].content = "" /\ file[j].tokens_used = 0

(* C9: for merge_pairs, both generate_constraints_batch functions,         *)
(* generate_batch, summarize_batch and evaluate_batch the number of output *)
(* rows equals the number of input rows, whatever succeeds or fails.       *)
C9_RowCount ==
    (Terminated /\ stage \in {"merge", "cgen", "ccgen", "base", "summarize", "evaluate"})
        => Len(file) = Len(df)

(* evaluate_batch_pairwise logs a warning for every instruction it skips;  *)
(* the joins of the other stages drop rows without naming them             *)
DropsLogged == stage = "pairwise"

(* C10: each output record's instruction_number equals that of the input   *)
(* record it was produced from, and the set of instruction_numbers in the  *)
(* output equals the set in the input unless the filtering was logged.     *)
C10_JoinKeyPreserved ==
    (bpc = "done" /\ has_instruction_num /\ stage # "merge") =>
        /\ \A j \in 1..Len(results) :
              results[j].instruction_number = work[j].instruction_number
        /\ IdsIn(file) = IdsIn(df) \/ DropsLogged

(* C11: generate_batch with deduplication on an input with repeated        *)
(* instruction_numbers invokes the unit exactly once per distinct          *)
(* instruction_number, every output row carries the content generated for  *)
(* its own instruction_number, and the output has as many rows as the      *)
(* input.                                                                  *)
C11_DedupOncePerId ==
    (stage = "base" /\ NeedsDeduplication /\ bpc = "done") =>
        /\ Len(port_log) = Cardinality(IdsIn(df))
        /\ IdsIn(work) = IdsIn(df)
        /\ \A a, b \in 1..Len(work) :
              a # b => work[a].instruction_number # work[b].instruction_number
        /\ Len(file) = Len(df)
        /\ \A j \in 1..Len(file) :
              /\ file[j].instruction_number = df[j].instruction_number
              /\ \E m \in 1..Len(results) :
                    /\ work[m].instruction_number = df[j].instruction_number
                    /\ file[j].content = results[m].content
                    /\ file[j].tokens_used = results[m].tokens_used

(* C11 witness: three rows over two ids, one unit generated and the other *)
(* failed, and the result was merged back                                 *)
C11_Witness ==
    /\ stage = "base" /\ NeedsDeduplication /\ bpc = "done"
    /\ Len(df) = 3
    /\ df[1].instruction_number = df[3].instruction_number
    /\ df[1].instruction_number # df[2].instruction_number
    /\ Len(results) = 2
    /\ results[1].content = "gen" /\ results[2].content = ""
    /\ file[3].content = "gen" /\ file[2].content = ""

---------------------------------------------------------------------------
(***************************************************************************)
(* The text-processing functions.  A text is a sequence of lines; a line   *)
(* is described by what the functions' regular expressions can see of it.  *)
(* A call sequence applies one function to one argument, up to MaxCalls    *)
(* times, and records each result.                                         *)
(***************************************************************************)
MaxLines == 3
MaxCalls == 2

(* every action of a call sequence leaves the sampler and the batch alone *)
CallFrame == UNCHANGED <<fn, arg, tpc, svars, bvars, lvars>>

CallInit(f, args) ==
    /\ SamplerIdle /\ BatchIdle /\ LedgerIdle
    /\ fn = f /\ arg \in args /\ res = <<>> /\ tpc = "call"

CanCall(f) == tpc = "call" /\ fn = f /\ Len(res) < MaxCalls

(***************************************************************************)
(* ConstraintExpander.  A line of a constraints text has a leading "N."    *)
(* marker (num > 0) or none (num = 0), and a body.                         *)
(***************************************************************************)
NumMarks == {0, 1, 5}
Bodies == {"a", "b"}

TextLine(num, body) == [num |-> num, body |-> body]

(* the line "Constraints:" *)
HeaderLine == TextLine(0, "Constraints:")

ConstraintTexts ==
    SeqsOf({TextLine(m, b) : m \in NumMarks, b \in Bodies} \cup {HeaderLine},
           0, MaxLines)

(* self.subset_sizes = subset_sizes or [7, 15, 23, 31, 39] *)
DefaultSubsetSizes == <<7, 15, 23, 31, 39>>

SubsetSizes(configured) ==
    IF configured = <<>> THEN DefaultSubsetSizes ELSE configured

(* re.sub(r"^Constraints:\s*", "", constraints_text.strip()) *)
StripHeader(text) ==
    IF text # <<>> /\ Head(text) = HeaderLine THEN Tail(text) ELSE text

(* re.split(r'\n\s*\d+\.\s*', ...): a line with a marker, after the first  *)
(* line, starts a new piece; any other line continues the piece before it. *)
(* re.sub(r'^\d+\.\s*', '', c) drops the marker of the first line.         *)
RECURSIVE SplitPieces(_, _)
SplitPieces(text, acc) ==
    IF text = <<>> THEN acc
    ELSE IF acc = <<>> \/ Head(text).num > 0
         THEN SplitPieces(Tail(text), Append(acc, <<Head(text).body>>))
         ELSE SplitPieces(Tail(text),
                          [acc EXCEPT ![Len(acc)] = Append(@, Head(text).body)])

(* _parse_constraints *)
ParseConstraints(text) == SplitPieces(StripHeader(text), <<>>)

(* a slice that keeps the whole list *)
TakeAll(list, k) == list

(* list[:k] *)
PySlice(list, k) ==
    IF k >= 0 THEN SubSeq(list, 1, Min(k, Len(list)))
    ELSE SubSeq(list, 1, IF Len(list) + k > 0 THEN Len(list) + k ELSE 0)

(* the row expand_constraints appends for one row and one size *)
ExpandRow(row, size) ==
    LET constraints_list == ParseConstraints(row.constraints)
        total_constraints == Len(constraints_list)
        subset == PySlice(constraints_list, Min(size, total_constraints))
    IN  [instruction_number |-> row.instruction_number,
         selected_constraints |->
             [j \in 1..Len(subset) |-> [num |-> j, body |-> subset[j]]],
         subset_size |-> Min(size, total_constraints)]

(* expand_constraints: for every row, for every size, in order *)
RECURSIVE ExpandConstraints(_, _)
ExpandConstraints(rows, sizes) ==
    IF rows = <<>> THEN <<>>
    ELSE [q \in 1..Len(sizes) |-> ExpandRow(Head(rows), sizes[q])]
         \o ExpandConstraints(Tail(rows), sizes)

(* the 39-constraint set of the bucket-expansion scenario *)
Scenario39 ==
    [df |-> <<[instruction_number |-> 1,
               constraints |-> [j \in 1..39 |-> TextLine(j, "a")]]>>,
     subset_sizes |-> DefaultSubsetSizes]

SecondRow ==
    [instruction_number |-> 2,
     constraints |-> <<TextLine(1, "a"), TextLine(2, "b")>>]

ExpandArgs ==
    {[df |-> d, subset_sizes |-> z] :
        d \in UNION {{<<[instruction_number |-> 1, constraints |-> t]>>,
                      <<[instruction_number |-> 1, constraints |-> t], SecondRow>>} :
                        t \in ConstraintTexts},
        z \in SeqsOf({0, 1, 2, MaxLines + 1}, 0, 2)}
    \cup {Scenario39}

InitExpand == CallInit("expand_constraints", ExpandArgs)

CallExpand ==
    /\ CanCall("expand_constraints")
    /\ res' = Append(res, ExpandConstraints(arg.df, SubsetSizes(arg.subset_sizes)))
    /\ CallFrame

(***************************************************************************)
(* ConstraintEvaluator.  A line of a response is the anchor                *)
(* "Number of constraints satisfied: <N>" (value N), the same words with   *)
(* no number after them, a numbered "<n>. Yes" or "<n>. No" line, or other *)
(* text.                                                                   *)
(***************************************************************************)
RateScale == 10000

ResponseLine(kind, value) == [kind |-> kind, value |-> value]

ResponseLines ==
    {ResponseLine("anchor", v) : v \in {0, 2, 5}}
    \cup {ResponseLine(c, 0) : c \in {"anchor_no_number", "yes", "no", "other"}}

ResponseTexts == SeqsOf(ResponseLines, 0, MaxLines)

(* re.search(r'Number of constraints satisfied:\s*(\d+)', results) *)
AnchorMatches(reply) ==
    {j \in 1..Len(reply) : reply[j].kind = "anchor"}

(* re.findall(r'^\d+\.\s+Yes', results, re.MULTILINE) *)
YesMatches(reply) ==
    {j \in 1..Len(reply) : reply[j].kind = "yes"}

(* an extraction that counts the Yes lines before it looks for the anchor *)
YesCountFirst(reply) ==
    IF YesMatches(reply) # {} THEN Cardinality(YesMatches(reply))
    ELSE IF AnchorMatches(reply) # {}
         THEN reply[CHOOSE j \in AnchorMatches(reply) :
                        \A m \in AnchorMatches(reply) : j <= m].value
         ELSE 0

(* _extract_satisfaction_count *)
ExtractSatisfactionCount(reply) ==
    IF AnchorMatches(reply) # {}
    THEN reply[CHOOSE j \in AnchorMatches(reply) :
                    \A m \in AnchorMatches(reply) : j <= m].value
    ELSE Cardinality(YesMatches(reply))

ExtractArgs == ResponseTexts

InitExtract == CallInit("_extract_satisfaction_count", ExtractArgs)

CallExtract ==
    /\ CanCall("_extract_satisfaction_count")
    /\ res' = Append(res, ExtractSatisfactionCount(arg))
    /\ CallFrame

(* len(re.findall(r'^\d+\.', constraints, re.MULTILINE)) *)
TotalConstraints(constraints) ==
    Cardinality({j \in 1..Len(constraints) : constraints[j].num > 0})

(* the row evaluate_batch appends for one sample: the unit returned the    *)
(* response, or raised (the rate is kept in units of 1/RateScale)          *)
EvaluateRow(response, constraints, raised) ==
    IF raised
    THEN [num_satisfied |-> 0, total_constraints |-> 0, satisfaction_rate |-> 0]
    ELSE LET num_satisfied == ExtractSatisfactionCount(response)
             total_constraints == TotalConstraints(constraints)
         IN  [num_satisfied |-> num_satisfied,
              total_constraints |-> total_constraints,
              satisfaction_rate |->
                  IF total_constraints > 0
                  THEN (num_satisfied * RateScale) \div total_constraints
                  ELSE 0]

EvaluateRowArgs ==
    [response : ResponseTexts,
     constraints : SeqsOf({TextLine(1, "a"), TextLine(0, "a")}, 0, MaxLines),
     raised : BOOLEAN]

InitEvaluateRow == CallInit("evaluate_batch_row", EvaluateRowArgs)

CallEvaluateRow ==
    /\ CanCall("evaluate_batch_row")
    /\ res' = Append(res, EvaluateRow(arg.response, arg.constraints, arg.raised))
    /\ CallFrame

(***************************************************************************)
(* The pairwise-quality parsers.  An evaluation text has one segment per   *)
(* category; a segment is described by the way it gives the two scores.    *)
(***************************************************************************)
Categories == {"grammar", "coherence", "likability"}

Scores == {3, 4}

(* the denominator of a score written "4/5" *)
OutOf == 5

(* a category without a score pair: (None, None) *)
NoScores == <<>>

(* the parser's no-result sentinel: None *)
Sentinel == [is_none |-> TRUE, scores |-> [c \in Categories |-> NoScores]]

(* the category name does not occur in the text *)
AbsentSegment == [form |-> "absent", a |-> 0, b |-> 0, out_of |-> FALSE]

Segments ==
    (* "A: 4  B: 3", "A - 4/5  B - 3/5" *)
    {[form |-> "labelled", a |-> x, b |-> y, out_of |-> o] :
        x \in Scores, y \in Scores, o \in BOOLEAN}
    (* "A 4 B 3" *)
    \cup {[form |-> "loose", a |-> x, b |-> y, out_of |-> FALSE] :
            x \in Scores, y \in Scores}
    (* two numbers and no A or B *)
    \cup {[form |-> "numbers", a |-> x, b |-> y, out_of |-> FALSE] :
            x \in Scores, y \in Scores}
    (* "A: 4" and nothing for B; no number at all *)
    \cup {[form |-> f, a |-> 0, b |-> 0, out_of |-> FALSE] :
            f \in {"one_number", "words"}}
    \cup {AbsentSegment}

EvaluationTexts == [Categories -> Segments]

(* QualityEvaluator.extract_scores_for: the single pattern                 *)
(* r'A\s*[-:]\s*([0-9]+)(?:\s*/\s*[0-9]+)?' and the same for B             *)
QualityExtractScores(seg) ==
    IF seg.form = "labelled" THEN <<seg.a, seg.b>> ELSE NoScores

(* coherence_eval.extract_scores_for: "A ... number ... B ... number",     *)
(* then "A 4.5" at a line start, then the first two numbers of the segment *)
CoherenceExtractScores(seg) ==
    CASE seg.form = "loose" -> <<seg.a, seg.b>>
      [] seg.form = "labelled" ->
            IF seg.out_of THEN <<seg.a, OutOf>> ELSE <<seg.a, seg.b>>
      [] seg.form = "numbers" -> <<seg.a, seg.b>>
      [] OTHER -> NoScores

(* an assembly that reports missing scores as zeros in every case *)
ZerosForSentinel(scores) ==
    [is_none |-> FALSE,
     scores |-> [c \in Categories |->
                    IF scores[c] = NoScores THEN <<0, 0>> ELSE scores[c]]]

(* if all(v is None ...): return None; else 0.0 for each missing score *)
AssembleParsed(scores) ==
    IF \A c \in Categories : scores[c] = NoScores THEN Sentinel
    ELSE [is_none |-> FALSE,
          scores |-> [c \in Categories |->
                         IF scores[c] = NoScores THEN <<0, 0>> ELSE scores[c]]]

(* QualityEvaluator._parse_evaluation (the scores) *)
QualityParseEvaluation(evaluation) ==
    AssembleParsed([c \in Categories |-> QualityExtractScores(evaluation[c])])

(* coherence_eval.parse_evaluation (the scores) *)
CoherenceParseEvaluation(evaluation) ==
    AssembleParsed([c \in Categories |-> CoherenceExtractScores(evaluation[c])])

InitQualityParse == CallInit("QualityEvaluator._parse_evaluation", EvaluationTexts)

CallQualityParse ==
    /\ CanCall("QualityEvaluator._parse_evaluation")
    /\ res' = Append(res, QualityParseEvaluation(arg))
    /\ CallFrame

InitCoherenceParse == CallInit("coherence_eval.parse_evaluation", EvaluationTexts)

CallCoherenceParse ==
    /\ CanCall("coherence_eval.parse_evaluation")
    /\ res' = Append(res, CoherenceParseEvaluation(arg))
    /\ CallFrame

(***************************************************************************)
(* The task/constraint extraction of the three constraint stages.  A line  *)
(* of a response is a "Main Task: ..." line, a "Constraints:" line, a      *)
(* "Revised Constraints:" line, a "**Constraints:**" line, a list item     *)
(* (which may mention the words "constraints" or "main task"), or blank.   *)
(* A captured line is recorded with its position in the response and the   *)
(* "N." marker it still carries (0: none).                                 *)
(***************************************************************************)
ReplyKinds ==
    {"main_task_header", "constraints_header", "revised_header",
     "bold_constraints_header", "item", "item_mentions_constraints",
     "item_mentions_main_task", "blank"}

ReplyLine(kind, num) == [kind |-> kind, num |-> num]

ReplyLines ==
    {ReplyLine(c, 0) : c \in ReplyKinds \ {"item"}}
    \cup {ReplyLine("item", m) : m \in {0, 1}}
    \cup {ReplyLine("item_mentions_constraints", 1)}

ReplyTexts == SeqsOf(ReplyLines, 0, MaxLines)

ResponseParsers ==
    {"ConstraintGenerator._parse_response",
     "CommonConstraintGenerator._parse_response",
     "ConstraintReplacer._parse_response"}

(* line.startswith("Main Task:"), or "main task" in lower *)
IsMainTaskLine(f, line) ==
    IF f = "CommonConstraintGenerator._parse_response"
    THEN line.kind \in {"main_task_header", "item_mentions_main_task"}
    ELSE line.kind = "main_task_header"

(* line.startswith("Constraints:") [or "Revised Constraints:"], or         *)
(* "constraints" in lower (after strip("*"))                               *)
IsConstraintsLine(f, line) ==
    CASE f = "CommonConstraintGenerator._parse_response" ->
            line.kind \in {"constraints_header", "revised_header",
                           "bold_constraints_header", "item_mentions_constraints"}
      [] f = "ConstraintReplacer._parse_response" ->
            line.kind \in {"constraints_header", "revised_header"}
      [] OTHER -> line.kind = "constraints_header"

(* the loop of _parse_response: the if / elif / elif chain, line by line *)
RECURSIVE ParseLines(_, _, _, _, _)
ParseLines(f, lines, pos, in_constraints, acc) ==
    IF pos > Len(lines) THEN acc
    ELSE LET line == lines[pos]
         IN  IF IsMainTaskLine(f, line)
             THEN ParseLines(f, lines, pos + 1, in_constraints,
                             [acc EXCEPT !.main_task = pos])
             ELSE IF IsConstraintsLine(f, line)
             THEN ParseLines(f, lines, pos + 1, TRUE, acc)
             ELSE IF in_constraints /\ line.kind # "blank"
             THEN ParseLines(f, lines, pos + 1, in_constraints,
                             [acc EXCEPT !.constraints =
                                 Append(@, [pos |-> pos, num |-> line.num])])
             ELSE ParseLines(f, lines, pos + 1, in_constraints, acc)

(* an extraction whose in_constraints flag survives from an earlier call *)
ParseResponseKeepingFlag(f, response_text) ==
    ParseLines(f, response_text, 1, res # <<>>, [main_task |-> 0, constraints |-> <<>>])

(* _parse_response *)
ParseResponse(f, response_text) ==
    ParseLines(f, response_text, 1, FALSE, [main_task |-> 0, constraints |-> <<>>])

ParseResponseArgs == ReplyTexts

InitParseResponse ==
    \E f \in ResponseParsers : CallInit(f, ParseResponseArgs)

CallParseResponse ==
    /\ \E f \in ResponseParsers : CanCall(f)
    /\ res' = Append(res, ParseResponse(fn, arg))
    /\ CallFrame

InitParseConstraints == CallInit("_parse_constraints", ConstraintTexts)

CallParseConstraints ==
    /\ CanCall("_parse_constraints")
    /\ res' = Append(res, ParseConstraints(arg))
    /\ CallFrame

(***************************************************************************)
(* Schema validation.  A cell is described by its Python type and, for an  *)
(* int, its value.  validate_row returns (True, None), returns             *)
(* (False, message), or raises.                                            *)
(***************************************************************************)
(* the constraint count every schema requires *)
RequiredTotal == 39

Cell(type, value) == [type |-> type, value |-> value]

Schemas == {"EvaluationResultsSchema", "ConstraintsSchema"}

EvaluationRows ==
    [instruction_number : {0, 1},
     total_constraints : {2, RequiredTotal},
     num_satisfied : {Cell("int", 5), Cell("int", RequiredTotal + 1), Cell("str", 0)},
     rate_matches : BOOLEAN]

ConstraintsRows ==
    [instruction_number : {0, 1},
     constraint_count : {2, RequiredTotal - 1, RequiredTotal, RequiredTotal + 1},
     main_task_empty : BOOLEAN]

RowOutcome(kind, message) == [kind |-> kind, message |-> message]

(* EvaluationResultsSchema.validate_row: the checks in order; the chained  *)
(* comparison 0 <= num_satisfied <= 39 raises TypeError on a str           *)
ValidateEvaluationRow(row) ==
    IF row.instruction_number <= 0
    THEN RowOutcome("invalid", "instruction_number must be a positive integer")
    ELSE IF row.total_constraints # RequiredTotal
    THEN RowOutcome("invalid", "total_constraints must be 39")
    ELSE IF row.num_satisfied.type # "int"
    THEN RowOutcome("raise", "TypeError")
    ELSE IF ~(0 <= row.num_satisfied.value /\ row.num_satisfied.value <= RequiredTotal)
    THEN RowOutcome("invalid", "num_satisfied must be between 0 and 39")
    ELSE IF ~row.rate_matches
    THEN RowOutcome("invalid", "satisfaction_rate mismatch")
    ELSE RowOutcome("valid", "")

(* f"Expected 39 constraints, found {constraint_count}" *)
ExpectedFound(c) == "Expected 39 constraints, found " \o ToString(c)

(* a count check that accepts more than the required number of lines *)
ValidateConstraintsRowAtLeast(row) ==
    IF row.instruction_number <= 0
    THEN RowOutcome("invalid", "instruction_number must be a positive integer")
    ELSE IF row.constraint_count < RequiredTotal
    THEN RowOutcome("invalid", ExpectedFound(row.constraint_count))
    ELSE IF row.main_task_empty
    THEN RowOutcome("invalid", "main_task cannot be empty")
    ELSE RowOutcome("valid", "")

(* ConstraintsSchema.validate_row *)
ValidateConstraintsRow(row) ==
    IF row.instruction_number <= 0
    THEN RowOutcome("invalid", "instruction_number must be a positive integer")
    ELSE IF row.constraint_count # RequiredTotal
    THEN RowOutcome("invalid", ExpectedFound(row.constraint_count))
    ELSE IF row.main_task_empty
    THEN RowOutcome("invalid", "main_task cannot be empty")
    ELSE RowOutcome("valid", "")

ValidateRow(schema, row) ==
    IF schema = "EvaluationResultsSchema"
    THEN ValidateEvaluationRow(row) ELSE ValidateConstraintsRow(row)

Report(raised, errors) ==
    [raised |-> raised, passed |-> ~raised /\ errors = <<>>, errors |-> errors]

(* the row loop of BaseSchema.validate; idx is the RangeIndex label *)
RECURSIVE ValidateRows(_, _, _, _)
ValidateRows(schema, rows, pos, errors) ==
    IF pos > Len(rows) THEN Report(FALSE, errors)
    ELSE LET o == ValidateRow(schema, rows[pos])
         IN  CASE o.kind = "raise" -> Report(TRUE, errors)
               [] o.kind = "invalid" ->
                     ValidateRows(schema, rows, pos + 1,
                                  Append(errors, [row |-> pos - 1, message |-> o.message]))
               [] OTHER -> ValidateRows(schema, rows, pos + 1, errors)

(* BaseSchema.validate *)
Validate(schema, batch) ==
    IF batch.missing_cols
    THEN Report(FALSE, <<[row |-> 0 - 1, message |-> "Missing required columns"]>>)
    ELSE ValidateRows(schema, batch.rows, 1, <<>>)

(* validate_csv: read_csv and validate inside one try *)
ValidateCsv(schema, batch) ==
    LET failed == Report(FALSE, <<[row |-> 0 - 1, message |-> "Failed to read CSV"]>>)
    IN  IF ~batch.readable THEN failed
        ELSE IF Validate(schema, batch).raised THEN failed
        ELSE Validate(schema, batch)

Batches(readables) ==
    UNION {[schema : {"EvaluationResultsSchema"}, readable : readables,
            missing_cols : BOOLEAN, rows : SeqsOf(EvaluationRows, 0, MaxRecords)],
           [schema : {"ConstraintsSchema"}, readable : readables,
            missing_cols : BOOLEAN, rows : SeqsOf(ConstraintsRows, 0, MaxRecords)]}

InitValidate == CallInit("BaseSchema.validate", Batches({TRUE}))

CallValidate ==
    /\ CanCall("BaseSchema.validate")
    /\ res' = Append(res, Validate(arg.schema, arg))
    /\ CallFrame

InitValidateCsv == CallInit("validate_csv", Batches(BOOLEAN))

CallValidateCsv ==
    /\ CanCall("validate_csv")
    /\ res' = Append(res, ValidateCsv(arg.schema, arg))
    /\ CallFrame

InitValidateRow == CallInit("ConstraintsSchema.validate_row", ConstraintsRows)

CallValidateRow ==
    /\ CanCall("ConstraintsSchema.validate_row")
    /\ res' = Append(res, ValidateConstraintsRow(arg))
    /\ CallFrame

(* the counts fit_batch records in the row of one sample: the unit         *)
(* returned, or raised                                                     *)
FitRow(constraints, raised) ==
    IF raised
    THEN [num_constraints |-> 0, tokens_used |-> 0]
    ELSE [num_constraints |-> TotalConstraints(constraints),
          tokens_used |-> CHOOSE t \in TokenValues : TRUE]

FitRowArgs ==
    [constraints : SeqsOf({TextLine(1, "a"), TextLine(0, "a")}, 0, MaxLines),
     raised : BOOLEAN]

InitFitRow == CallInit("fit_batch_row", FitRowArgs)

CallFitRow ==
    /\ CanCall("fit_batch_row")
    /\ res' = Append(res, FitRow(arg.constraints, arg.raised))
    /\ CallFrame

(***************************************************************************)
(* The columns of the files the stages write, and the required columns of  *)
(* the schemas.                                                            *)
(***************************************************************************)
Writers == {"merge_pairs", "ConstraintGenerator.generate_constraints_batch",
            "CommonConstraintGenerator.generate_constraints_batch",
            "generate_batch", "generate_batch_deduplicated", "fit_batch",
            "evaluate_batch"}

(* required_columns of the schema a writer's file is validated against *)
RequiredColumns(writer) ==
    CASE writer = "merge_pairs" ->
            {"original_blog_1", "original_blog_2", "merged_blog", "similarity",
             "merge_type"}
      [] writer \in {"ConstraintGenerator.generate_constraints_batch",
                     "CommonConstraintGenerator.generate_constraints_batch"} ->
            {"instruction_number", "instruction", "main_task", "constraints",
             "model_used", "timestamp"}
      [] writer \in {"generate_batch", "generate_batch_deduplicated"} ->
            {"instruction_number", "main_task", "base_content", "content_length",
             "model_used", "tokens_used", "timestamp"}
      [] writer = "fit_batch" ->
            {"instruction_number", "main_task", "constraints", "base_content",
             "fitted_content", "fitted_length", "num_constraints", "model_used",
             "tokens_used", "timestamp"}
      [] writer = "evaluate_batch" ->
            {"instruction_number", "fitted_content", "constraints",
             "satisfaction_results", "num_satisfied", "total_constraints",
             "satisfaction_rate", "model_used", "tokens_used", "timestamp"}

(* the columns of left.merge(right, on=key): a column of both frames other *)
(* than the key gets the suffixes _x and _y                                *)
MergeColumns(left, right, key) ==
    {c \in left : c \in key \/ c \notin right}
    \cup {c \in right : c \notin left}
    \cup {c \o "_x" : c \in {d \in left : d \in right /\ d \notin key}}
    \cup {c \o "_y" : c \in {d \in right : d \in left /\ d \notin key}}

(* the keys of the dict a loop appends for a successful record (the        *)
(* deduplicating generate_batch merges them back into its input)           *)
OutputColumns(writer, columns) ==
    CASE writer = "merge_pairs" ->
            {"Original Blog 1", "Original Blog 2", "Merged Blog", "Similarity",
             "blog_1_id", "blog_2_id", "merged_length", "model_used",
             "tokens_used", "timestamp"}
      [] writer = "ConstraintGenerator.generate_constraints_batch" ->
            {"instruction_number", "instruction", "main_task", "constraints",
             "model_used", "tokens_used", "timestamp"}
      [] writer = "CommonConstraintGenerator.generate_constraints_batch" ->
            {"instruction_number", "blog1", "blog2", "main_task", "constraints",
             "model_used", "tokens_used", "timestamp"}
      [] writer = "generate_batch" ->
            {"instruction_number", "main_task", "base_content", "content_length",
             "model_used", "tokens_used", "timestamp"}
      [] writer = "generate_batch_deduplicated" ->
            MergeColumns(columns,
                         {"instruction_number", "base_content", "content_length",
                          "model_used", "tokens_used", "timestamp"},
                         {"instruction_number"})
      [] writer = "fit_batch" ->
            {"instruction_number", "main_task", "constraints", "base_content",
             "fitted_content", "fitted_length", "num_constraints", "model_used",
             "tokens_used", "timestamp"}
      [] writer = "evaluate_batch" ->
            {"instruction_number", "fitted_content", "constraints",
             "satisfaction_results", "num_satisfied", "total_constraints",
             "satisfaction_rate", "model_used", "tokens_used", "timestamp"}

(* the columns of the input of generate_batch: the task column alone, or   *)
(* an expanded constraints file                                            *)
InputColumnSets ==
    {{"instruction_number", "main_task"},
     {"instruction_number", "instruction", "main_task", "constraints",
      "model_used", "tokens_used", "timestamp", "subset_size"}}

OutputColumnsArgs == [writer : Writers, columns : InputColumnSets]

InitOutputColumns == CallInit("output_columns", OutputColumnsArgs)

CallOutputColumns ==
    /\ CanCall("output_columns")
    /\ res' = Append(res, OutputColumns(arg.writer, arg.columns))
    /\ CallFrame

(***************************************************************************)
(* The row evaluate_batch_pairwise writes for one comparison whose unit    *)
(* returned.  The response is an evaluation text with, per category and    *)
(* for the overall winner, the preference a "Preference:" pattern finds    *)
(* in it ("" when it finds none).                                          *)
(***************************************************************************)
PrefCategories == Categories \cup {"overall"}

(* np.random.randint(2) *)
Orders == {0, 1}

(* an assignment that always sends the baseline as content A *)
BaselineFirst(order, baseline_content, comp_content) ==
    <<baseline_content, comp_content>>

(* if order == 0: content_a = baseline_content ... else: the reverse *)
Assignment(order, baseline_content, comp_content) ==
    IF order = 0 THEN <<baseline_content, comp_content>>
    ELSE <<comp_content, baseline_content>>

(* _parse_evaluation with the preferences: grammar_pref or '' ... *)
QualityParsePrefs(evaluation, prefs) ==
    LET parsed == QualityParseEvaluation(evaluation)
    IN  [is_none |-> parsed.is_none, scores |-> parsed.scores,
         prefs |-> IF parsed.is_none THEN [c \in PrefCategories |-> ""] ELSE prefs]

(* the try block of evaluate_batch_pairwise: what is sent to               *)
(* evaluate_pair, and the row built from what it returned                  *)
PairwiseRow(order, baseline_content, comp_content, evaluation, prefs, tokens) ==
    LET sent == Assignment(order, baseline_content, comp_content)
        parsed == QualityParsePrefs(evaluation, prefs)
    IN  [content_a |-> sent[1], content_b |-> sent[2],
         content_baseline |-> baseline_content,
         content_comparison |-> comp_content,
         order |-> order,
         evaluation_raw |-> evaluation,
         eval_tokens |-> tokens,
         scores |-> IF ~parsed.is_none THEN parsed.scores
                    ELSE [c \in Categories |-> <<0, 0>>],
         prefs |-> IF ~parsed.is_none THEN parsed.prefs
                   ELSE [c \in PrefCategories |-> ""]]

PairwiseSegments ==
    {[form |-> "labelled", a |-> 4, b |-> 3, out_of |-> FALSE],
     [form |-> "words", a |-> 0, b |-> 0, out_of |-> FALSE],
     AbsentSegment}

PairwiseRowArgs ==
    [order : Orders,
     baseline_content : {"x", "y"},
     comp_content : {"x", "y"},
     evaluation : [Categories -> PairwiseSegments],
     prefs : [PrefCategories -> {"A", ""}],
     tokens : TokenValues]

InitPairwiseRow == CallInit("evaluate_batch_pairwise_row", PairwiseRowArgs)

CallPairwiseRow ==
    /\ CanCall("evaluate_batch_pairwise_row")
    /\ res' = Append(res, PairwiseRow(arg.order, arg.baseline_content,
                                      arg.comp_content, arg.evaluation,
                                      arg.prefs, arg.tokens))
    /\ CallFrame

(***************************************************************************)
(* The rows the batch loops write in their except branch, and the row      *)
(* checks of the schemas of their files.  A row is checked as the loop     *)
(* built it, or as read_csv reads it back: an empty cell is then NaN.      *)
(***************************************************************************)
FailureStages == {"cgen", "ccgen", "base", "fit", "evaluate"}

(* "" in memory; NaN, whose str() is "nan", after read_csv *)
EmptyCell(read_back) == IF read_back THEN "nan" ELSE ""

(* len(str(cell)) of such a cell *)
CellLen(text) == IF text = "" THEN 0 ELSE 3

(* not cell or len(str(cell).strip()) == 0: NaN is true and "nan" has text *)
CellEmpty(text) == text = ""

(* the except branch of each loop: the cells the row checks read *)
FailureCells(st, instruction_num, read_back) ==
    CASE st \in {"cgen", "ccgen"} ->
           [instruction_number |-> instruction_num,
            main_task |-> EmptyCell(read_back),
            constraints |-> EmptyCell(read_back),
            tokens_used |-> 0]
      [] st = "base" ->
           [instruction_number |-> instruction_num,
            base_content |-> EmptyCell(read_back),
            content_length |-> 0,
            tokens_used |-> 0]
      [] st = "fit" ->
           [instruction_number |-> instruction_num,
            fitted_content |-> EmptyCell(read_back),
            fitted_length |-> 0,
            num_constraints |-> 0,
            tokens_used |-> 0]
      [] OTHER ->
           [instruction_number |-> instruction_num,
            satisfaction_results |-> EmptyCell(read_back),
            num_satisfied |-> 0,
            total_constraints |-> 0,
            satisfaction_rate |-> 0,
            tokens_used |-> 0]

(* a row check that tests the instruction number only *)
ChecksIdOnly(row) ==
    IF row.instruction_number <= 0
    THEN RowOutcome("invalid", "instruction_number must be a positive integer")
    ELSE RowOutcome("valid", "")

(* BaseGeneratedSchema.validate_row *)
ValidateBaseGeneratedRow(row) ==
    IF row.instruction_number <= 0
    THEN RowOutcome("invalid", "instruction_number must be a positive integer")
    ELSE IF row.content_length <= 0
    THEN RowOutcome("invalid", "content_length must be a positive integer")
    ELSE IF row.actual_length - row.content_length > 10
            \/ row.content_length - row.actual_length > 10
    THEN RowOutcome("invalid", "content_length mismatch")
    ELSE IF row.tokens_used <= 0
    THEN RowOutcome("invalid", "tokens_used must be a positive integer")
    ELSE RowOutcome("valid", "")

(* FittedContentSchema.validate_row *)
ValidateFittedRow(row) ==
    IF row.instruction_number <= 0
    THEN RowOutcome("invalid", "instruction_number must be a positive integer")
    ELSE IF row.num_constraints # RequiredTotal
    THEN RowOutcome("invalid", "num_constraints must be 39")
    ELSE IF row.fitted_length <= 0
    THEN RowOutcome("invalid", "fitted_length must be a positive integer")
    ELSE IF row.actual_length - row.fitted_length > 10
            \/ row.fitted_length - row.actual_length > 10
    THEN RowOutcome("invalid", "fitted_length mismatch")
    ELSE RowOutcome("valid", "")

(* the row check of the stage's schema on the cells of a row; no line of   *)
(* "" or "nan" matches r'^\d+\.'                                           *)
CheckCells(st, cells) ==
    CASE st \in {"cgen", "ccgen"} ->
           ValidateConstraintsRow(
               [instruction_number |-> cells.instruction_number,
                constraint_count |-> 0,
                main_task_empty |-> CellEmpty(cells.main_task)])
      [] st = "base" ->
           ValidateBaseGeneratedRow(
               [instruction_number |-> cells.instruction_number,
                content_length |-> cells.content_length,
                actual_length |-> CellLen(cells.base_content),
                tokens_used |-> cells.tokens_used])
      [] st = "fit" ->
           ValidateFittedRow(
               [instruction_number |-> cells.instruction_number,
                num_constraints |-> cells.num_constraints,
                fitted_length |-> cells.fitted_length,
                actual_length |-> CellLen(cells.fitted_content)])
      [] OTHER ->
           ValidateEvaluationRow(
               [instruction_number |-> cells.instruction_number,
                total_constraints |-> cells.total_constraints,
                num_satisfied |-> Cell("int", cells.num_satisfied),
                rate_matches |-> FALSE])

FailureRowArgs ==
    [stage : FailureStages, instruction_num : {0, 1}, read_back : BOOLEAN]

InitCheckFailureRow == CallInit("validate_failure_row", FailureRowArgs)

CallCheckFailureRow ==
    /\ CanCall("validate_failure_row")
    /\ res' = Append(res, CheckCells(arg.stage,
                              FailureCells(arg.stage, arg.instruction_num,
                                           arg.read_back)))
    /\ CallFrame

(***************************************************************************)
(* The call sequences                                                      *)
(***************************************************************************)
InitText ==
    \/ InitExpand
    \/ InitExtract
    \/ InitEvaluateRow
    \/ InitQualityParse
    \/ InitCoherenceParse
    \/ InitParseResponse
    \/ InitParseConstraints
    \/ InitValidate
    \/ InitValidateCsv
    \/ InitValidateRow
    \/ InitFitRow
    \/ InitOutputColumns
    \/ InitPairwiseRow
    \/ InitCheckFailureRow

NextText ==
    \/ CallExpand
    \/ CallExtract
    \/ CallEvaluateRow
    \/ CallQualityParse
    \/ CallCoherenceParse
    \/ CallParseResponse
    \/ CallParseConstraints
    \/ CallValidate
    \/ CallValidateCsv
    \/ CallValidateRow
    \/ CallFitRow
    \/ CallOutputColumns
    \/ CallPairwiseRow
    \/ CallCheckFailureRow

SpecText == InitText /\ [][NextText]_vars

---------------------------------------------------------------------------
(***************************************************************************)
(* The usage ledger (UsageTracker).  log_usage appends one line to         *)
(* api_usage.txt; get_total_usage reads the file back and splits every     *)
(* line on " | ".  A line is kept as the list of these pieces; the token   *)
(* count is written as its decimal string and read back with int().        *)
(***************************************************************************)
MaxLedger == 3

Providers == {"openai", "anthropic"}
Models == {"gpt-4o-mini"}
TokenCounts == {0, 5, 7}
Timestamps == {"2024-01-01 00:00:00"}

(* metadata: None, or the usage breakdown the clients pass *)
Metadata == {"", "{'prompt_tokens': 3, 'completion_tokens': 4}"}

(* f"{timestamp} | {provider} | {model} | {tokens}{metadata_str}" *)
FormatLine(timestamp, provider, model, tokens, metadata) ==
    <<timestamp, provider, model, ToString(tokens)>>
    \o (IF metadata # "" THEN <<metadata>> ELSE <<>>)

(* int(parts[3]) *)
IntOf(str) == CHOOSE k \in TokenCounts : ToString(k) = str

(* a reader that counts only the lines that carry metadata *)
HasMetadata(parts) == Len(parts) >= 5

(* if len(parts) >= 4 *)
HasTokens(parts) == Len(parts) >= 4

(* the loop of get_total_usage over the lines of the file *)
RECURSIVE Tally(_, _, _)
Tally(lines, total_tokens, by_provider) ==
    IF lines = <<>> THEN [total_tokens |-> total_tokens, by_provider |-> by_provider]
    ELSE LET parts == Head(lines)
         IN  IF HasTokens(parts)
             THEN LET provider == parts[2]
                      tokens == IntOf(parts[4])
                      known == DOMAIN by_provider
                  IN  Tally(Tail(lines), total_tokens + tokens,
                            [p \in known \cup {provider} |->
                                (IF p \in known THEN by_provider[p] ELSE 0)
                                + (IF p = provider THEN tokens ELSE 0)])
             ELSE Tally(Tail(lines), total_tokens, by_provider)

InitLedger ==
    /\ SamplerIdle /\ BatchIdle /\ TextIdle
    /\ usage_file = <<>> /\ file_exists = FALSE /\ logged = <<>>
    /\ usage = Usage(0 - 1, 0, NoProviders)
    /\ calls = <<>>
    /\ lpc = "run"

(* UsageTracker.log_usage: open(cls._usage_file, "a") and one write *)
LogUsage ==
    /\ lpc = "run"
    /\ Len(usage_file) < MaxLedger
    /\ \E timestamp \in Timestamps, provider \in Providers, model \in Models,
          tokens \in TokenCounts, metadata \in Metadata :
          /\ usage_file' = Append(usage_file,
                                  FormatLine(timestamp, provider, model, tokens, metadata))
          /\ logged' = Append(logged, [provider |-> provider, model |-> model,
                                       tokens |-> tokens, metadata |-> metadata])
    /\ file_exists' = TRUE
    /\ UNCHANGED <<usage, calls, lpc, svars, bvars, tvars>>

(* UsageTracker.get_total_usage *)
GetTotalUsage ==
    /\ lpc = "run"
    /\ usage' = IF ~file_exists
                THEN Usage(Len(logged), 0, NoProviders)
                ELSE LET t == Tally(usage_file, 0, NoProviders)
                     IN  Usage(Len(logged), t.total_tokens, t.by_provider)
    /\ UNCHANGED <<usage_file, file_exists, logged, calls, lpc, svars, bvars, tvars>>

NextLedger ==
    \/ LogUsage
    \/ GetTotalUsage

SpecLedger == InitLedger /\ [][NextLedger]_vars

(***************************************************************************)
(* The clients and the service calls that return.  A call that raises      *)
(* writes nothing and is not a step.  The clients are built with           *)
(* log_usage=True, the default and what every script passes, and           *)
(* summarize_content is called with log=True, its default and what         *)
(* summarize_batch passes.                                                 *)
(***************************************************************************)
ClientLogsUsage == TRUE
SummarizerLogs == TRUE

OpenAIMetadata == "{'prompt_tokens': 3, 'completion_tokens': 4}"
AnthropicMetadata == "{'input_tokens': 3, 'output_tokens': 4}"
SummarizeMetadata == "summarize (9 -> 4 chars)"

(* the file and the record of log_usage calls after one more log_usage *)
Ledger(lines, records) == [lines |-> lines, records |-> records]

Logged(ledger, timestamp, provider, model, tokens, metadata) ==
    Ledger(Append(ledger.lines, FormatLine(timestamp, provider, model, tokens, metadata)),
           Append(ledger.records, [provider |-> provider, model |-> model,
                                   tokens |-> tokens, metadata |-> metadata]))

(* OpenAIClient.chat_completion and AnthropicClient.create_message after   *)
(* the service returned: if self.log_usage: UsageTracker.log_usage(...)    *)
WrapperLogged(ledger, timestamp, provider, model, tokens) ==
    IF ClientLogsUsage
    THEN Logged(ledger, timestamp, provider, model, tokens,
                IF provider = "openai" THEN OpenAIMetadata ELSE AnthropicMetadata)
    ELSE ledger

(* summarize_content after the service returned: an OpenAI client is       *)
(* called through self.llm_client.client, past chat_completion; any other  *)
(* client through create_message; then if log: UsageTracker.log_usage(...) *)
(* under the lower-cased class name without "Client", the provider's name  *)
SummarizeLogged(ledger, timestamp, provider, model, tokens) ==
    LET called == IF provider = "openai" THEN ledger
                  ELSE WrapperLogged(ledger, timestamp, provider, model, tokens)
    IN  IF SummarizerLogs
        THEN Logged(called, timestamp, provider, model, tokens, SummarizeMetadata)
        ELSE called

(* the frame of a service call that returned *)
Returned(after, provider, tokens) ==
    /\ Len(after.lines) <= MaxLedger
    /\ usage_file' = after.lines
    /\ logged' = after.records
    /\ file_exists' = (file_exists \/ Len(after.lines) > Len(usage_file))
    /\ calls' = Append(calls, [provider |-> provider, tokens |-> tokens])
    /\ UNCHANGED <<usage, lpc, svars, bvars, tvars>>

(* OpenAIClient.chat_completion, as every unit but the summarizer calls it *)
ChatCompletion ==
    /\ lpc = "run"
    /\ \E timestamp \in Timestamps, model \in Models, tokens \in TokenCounts :
          Returned(WrapperLogged(Ledger(usage_file, logged), timestamp, "openai",
                                 model, tokens),
                   "openai", tokens)

(* AnthropicClient.create_message, as every unit but the summarizer calls it *)
CreateMessage ==
    /\ lpc = "run"
    /\ \E timestamp \in Timestamps, model \in Models, tokens \in TokenCounts :
          Returned(WrapperLogged(Ledger(usage_file, logged), timestamp, "anthropic",
                                 model, tokens),
                   "anthropic", tokens)

(* ContentSummarizer.summarize_content with either client *)
SummarizeContent ==
    /\ lpc = "run"
    /\ \E timestamp \in Timestamps, provider \in Providers, model \in Models,
          tokens \in TokenCounts :
          Returned(SummarizeLogged(Ledger(usage_file, logged), timestamp, provider,
                                   model, tokens),
                   provider, tokens)

NextClients ==
    \/ ChatCompletion
    \/ CreateMessage
    \/ SummarizeContent
    \/ GetTotalUsage

SpecClients == InitLedger /\ [][NextClients]_vars

---------------------------------------------------------------------------
(***************************************************************************)
(* Claims about the text-processing functions (checked under SpecText)     *)
(***************************************************************************)
LineCount(selected) ==
    IF selected = <<>> THEN 0
    ELSE LET RECURSIVE Sum(_)
             Sum(j) == IF j = 0 THEN 0 ELSE Len(selected[j].body) + Sum(j - 1)
         IN  Sum(Len(selected))

(* C12: expand_constraints yields, for every input row with T parsed       *)
(* constraints and every configured size s, exactly one row whose          *)
(* selected_constraints are the first min(s, T) constraints in original    *)
(* order, renumbered from 1 whatever the source numbering, with the row's  *)
(* instruction_number unchanged: len(subset_sizes) rows per input row, and *)
(* min(size, 39) lines in each of the 5 rows of the 39-constraint set.     *)
C12_BucketExpansion ==
    (fn = "expand_constraints" /\ res # <<>>) =>
        LET out == res[1]
            sizes == SubsetSizes(arg.subset_sizes)
        IN  /\ Len(out) = Len(arg.df) * Len(sizes)
            /\ \A r \in 1..Len(arg.df), q \in 1..Len(sizes) :
                  LET o == out[(r - 1) * Len(sizes) + q]
                      src == StripHeader(arg.df[r].constraints)
                      cl == ParseConstraints(arg.df[r].constraints)
                      m == Min(sizes[q], Len(cl))
                  IN  /\ o.instruction_number = arg.df[r].instruction_number
                      /\ o.subset_size = m
                      /\ Len(o.selected_constraints) = m
                      /\ \A j \in 1..m :
                            /\ o.selected_constraints[j].num = j
                            /\ o.selected_constraints[j].body = cl[j]
                      /\ (\A j \in 1..Len(src) : src[j].num > 0) =>
                            \A j \in 1..m :
                                o.selected_constraints[j].body = <<src[j].body>>
            /\ arg = Scenario39 =>
                  /\ Len(out) = 5
                  /\ \A q \in 1..5 :
                        LineCount(out[q].selected_constraints) = Min(sizes[q], 39)

(* C12 witness: a row whose three constraints are numbered 5, 5, 1 in the *)
(* source was expanded at sizes 2 and 1                                    *)
C12_Witness ==
    /\ fn = "expand_constraints" /\ res # <<>>
    /\ arg.subset_sizes = <<2, 1>>
    /\ Len(arg.df) = 2
    /\ Len(arg.df[1].constraints) = 3
    /\ \A j \in 1..2 : arg.df[1].constraints[j].num = 5
    /\ arg.df[1].constraints[3].num = 1
    /\ Len(res[1]) = 4
    /\ res[1][1].subset_size = 2 /\ res[1][2].subset_size = 1
    /\ res[1][1].selected_constraints[2].num = 2

(* C13: every row emitted by evaluate_batch, for any response text and any *)
(* constraints text, has satisfaction_rate within 0.01 of                  *)
(* num_satisfied / total_constraints and 0 <= num_satisfied <=             *)
(* total_constraints.                                                      *)
C13_SatisfactionRateIdentity ==
    (fn = "evaluate_batch_row" /\ res # <<>>) =>
        LET row == res[1]
            diff == row.satisfaction_rate * row.total_constraints
                        - row.num_satisfied * RateScale
        IN  /\ 0 <= row.num_satisfied
            /\ row.num_satisfied <= row.total_constraints
            /\ 100 * diff <= RateScale * row.total_constraints
            /\ 100 * (0 - diff) <= RateScale * row.total_constraints

C15_RetriesUnparseable ==
    stage = "evaluate" =>
        \A j \in 1..Len(port_log) :
            \A p \in 1..Len(port_log[j]) :
                (port_log[j][p] = "noparse" /\ p < retry_attempts)
                    => p < Len(port_log[j])

PairwiseParsers ==
    {"QualityEvaluator._parse_evaluation", "coherence_eval.parse_evaluation"}

(* the scores a parser's own extraction finds in a segment *)
ExtractedBy(f, seg) ==
    IF f = "QualityEvaluator._parse_evaluation"
    THEN QualityExtractScores(seg) ELSE CoherenceExtractScores(seg)

(* C16: for a text whose category segment contains only the loose          *)
(* "A 4 B 3" pattern, the extractor returns a = 4.0 and b = 3.0 for that   *)
(* category, in QualityEvaluator._parse_evaluation as well as in           *)
(* coherence_eval.parse_evaluation.                                        *)
C16_LooseFallback ==
    (fn \in PairwiseParsers /\ res # <<>>) =>
        \A c \in Categories :
            (arg[c].form = "loose" /\ arg[c].a = 4 /\ arg[c].b = 3) =>
                /\ ~res[1].is_none
                /\ res[1].scores[c] = <<4, 3>>

(* C17: the pairwise-quality parser returns the no-result sentinel exactly *)
(* when none of the three categories yields a score pair; when at least    *)
(* one does, it returns a record in which every category without scores   *)
(* is reported as 0.0.                                                     *)
C17_SentinelIffNoScores ==
    (fn \in PairwiseParsers /\ res # <<>>) =>
        /\ res[1].is_none <=> \A c \in Categories : ExtractedBy(fn, arg[c]) = NoScores
        /\ res[1].is_none => res[1] = Sentinel
        /\ ~res[1].is_none =>
              \A c \in Categories :
                  res[1].scores[c] =
                      IF ExtractedBy(fn, arg[c]) = NoScores THEN <<0, 0>>
                      ELSE ExtractedBy(fn, arg[c])

(* C17 witness: both outcomes of one parser: a text with no scores gave    *)
(* the sentinel; here a text with scores for grammar only gave a record    *)
(* with zeros for the other two                                            *)
C17_Witness ==
    /\ fn = "QualityEvaluator._parse_evaluation" /\ res # <<>>
    /\ arg["grammar"].form = "labelled"
    /\ arg["coherence"].form = "words"
    /\ arg["likability"].form = "absent"
    /\ ~res[1].is_none
    /\ res[1].scores["coherence"] = <<0, 0>>
    /\ res[1].scores["likability"] = <<0, 0>>

Parsers ==
    ResponseParsers \cup PairwiseParsers
    \cup {"_parse_constraints", "_extract_satisfaction_count"}

MarkerLines(text) ==
    {j \in 1..Len(text) :
        text[j].kind \in {"constraints_header", "revised_header",
                          "bold_constraints_header", "item_mentions_constraints"}}

(* C19: once a line containing the "constraints" marker has been seen,     *)
(* every subsequent non-blank line is captured, in order (also later lines *)
(* that contain the words "constraints" or "main task"), with its leading  *)
(* "N." numbering stripped; lines before the marker are never captured.    *)
C19_CaptureAfterMarker ==
    (fn \in ResponseParsers /\ res # <<>>) =>
        LET captured == res[1].constraints
            first == IF MarkerLines(arg) = {} THEN Len(arg) + 1
                     ELSE CHOOSE j \in MarkerLines(arg) :
                            \A m \in MarkerLines(arg) : j <= m
            expected == {j \in 1..Len(arg) : j > first /\ arg[j].kind # "blank"}
        IN  /\ {captured[j].pos : j \in 1..Len(captured)} = expected
            /\ \A a, b \in 1..Len(captured) :
                  a < b => captured[a].pos < captured[b].pos
            /\ \A j \in 1..Len(captured) : captured[j].num = 0

(* the rows of a batch that are not valid, by RangeIndex label, in order *)
InvalidRows(batch) ==
    SortSet({j - 1 : j \in {m \in 1..Len(batch.rows) :
                              ValidateRow(batch.schema, batch.rows[m]).kind # "valid"}})

(* C20: schema validation never raises: for every record batch (missing    *)
(* columns, wrong types, unreadable file) validate_csv and                 *)
(* BaseSchema.validate return a (passed, errors) pair with passed true     *)
(* exactly when the error list is empty; a missing required column yields  *)
(* a single error and no row is checked, otherwise every invalid row       *)
(* contributes exactly one message, in row order.                          *)
C20_ValidationNeverRaises ==
    (fn \in {"BaseSchema.validate", "validate_csv"} /\ res # <<>>) =>
        LET report == res[1]
        IN  /\ ~report.raised
            /\ report.passed <=> report.errors = <<>>
            /\ (arg.readable /\ arg.missing_cols) =>
                  /\ Len(report.errors) = 1
                  /\ report.errors[1].row = 0 - 1
            /\ (arg.readable /\ ~arg.missing_cols) =>
                  [j \in 1..Len(report.errors) |-> report.errors[j].row]
                      = InvalidRows(arg)

(* C21: ConstraintsSchema.validate_row, on a row whose other fields are    *)
(* valid, passes exactly when the constraints text has 39 lines starting   *)
(* with "<digits>."; with any other count c it fails with the message      *)
(* "Expected 39 constraints, found c" (38 lines: "... found 38").          *)
C21_ExactCount ==
    (fn = "ConstraintsSchema.validate_row" /\ res # <<>>
        /\ arg.instruction_number > 0 /\ ~arg.main_task_empty) =>
        /\ res[1].kind = "valid" <=> arg.constraint_count = 39
        /\ arg.constraint_count # 39 =>
              /\ res[1].kind = "invalid"
              /\ res[1].message =
                    "Expected 39 constraints, found " \o ToString(arg.constraint_count)
        /\ arg.constraint_count = 38 =>
              res[1].message = "Expected 39 constraints, found 38"

(* C21 witness: an otherwise valid row with 38 numbered lines was rejected *)
C21_Witness ==
    /\ fn = "ConstraintsSchema.validate_row" /\ res # <<>>
    /\ arg.instruction_number > 0 /\ ~arg.main_task_empty
    /\ arg.constraint_count = 38
    /\ res[1] = RowOutcome("invalid", "Expected 39 constraints, found 38")


---------------------------------------------------------------------------
(***************************************************************************)
(* Claims about configuration errors, persistence and order (checked under *)
(* SpecBatch)                                                              *)
(***************************************************************************)
(* the input of a batch entry point lacks the join key of its join or a    *)
(* column the stage reads its texts from                                   *)
ConfigMissing ==
    /\ stage \in CoreStages
    /\ \/ stage \in {"fit", "replace", "pairwise"} /\ ~has_instruction_num
       \/ ~has_columns

NoPortCall == port_log = <<>> /\ cur_log = <<>> /\ results = <<>>

LengthMismatch ==
    /\ \/ stage = "direct" /\ ~has_instruction_num
       \/ stage = "coh_eval"
    /\ has_columns
    /\ Len(df) # Len(base_df)

(* C23 as stated: with two input files of different lengths and no join    *)
(* key, the run is fatal at batch start and no service call is made.       *)
C23_FatalAtStart ==
    LengthMismatch => (NoPortCall /\ bpc \in {"start", "config_error"})

(* C23, amended: with two input files of different lengths and no join    *)
(* key, the run is not fatal: the rows are paired by position over the     *)
(* first min(len) rows of each file, the service is called for these rows  *)
(* only (at least once each when retry_attempts is 1 or more), and the     *)
(* output has min(len) rows.                                               *)
C23_PairsFirstMinLen ==
    LengthMismatch =>
        /\ bpc # "config_error"
        /\ bpc # "start" => Len(work) = Min(Len(df), Len(base_df))
        /\ Len(port_log) <= Min(Len(df), Len(base_df))
        /\ bpc = "done" =>
              /\ Len(file) = Min(Len(df), Len(base_df))
              /\ retry_attempts >= 1 =>
                    \A j \in 1..Len(file) : Len(port_log[j]) >= 1

(* C23 witness: two rows against one, no join key: the run ended normally  *)
(* after calling the service for the one pair                              *)
C23_Witness ==
    /\ stage \in {"direct", "coh_eval"} /\ LengthMismatch
    /\ Len(df) = 2 /\ Len(base_df) = 1
    /\ bpc = "done" /\ Len(file) = 1 /\ Len(port_log[1]) >= 1


(* the save intervals a stage can be said to run with: the save_interval   *)
(* of merge_pairs; for a stage without one, any interval that passed a     *)
(* save point among the records completed so far                           *)
SaveIntervals ==
    IF stage = "merge" THEN {save_interval} ELSE 1..Len(results)

(* C24: every stage persists its output incrementally: while the batch     *)
(* loop runs, after k records have completed the output file holds the     *)
(* rows of the completed records up to the last save point, in every core  *)
(* stage.                                                                  *)
C24_IncrementalPersistence ==
    (stage \in CoreStages /\ bpc = "loop" /\ results # <<>>) =>
        \E s \in SaveIntervals :
            file = SubSeq(results, 1, (Len(results) \div s) * s)


(* the stages whose loop iterates over its one input, without a join *)
NonJoinStages == {"merge", "cgen", "ccgen", "base", "summarize", "evaluate"}

(* the instruction_number the output row of input row j carries *)
ExpectedId(j) ==
    CASE stage = "cgen" -> j
      [] stage \in {"ccgen", "base", "evaluate"} ->
            IF has_instruction_num THEN df[j].instruction_number ELSE j
      [] OTHER -> IF has_instruction_num THEN df[j].instruction_number ELSE 0

(* rows are appended in the order of the loop, and the port calls of a     *)
(* record are made after the rows of all earlier records were appended     *)
SequentialOrder ==
    bpc \in {"loop", "done", "aborted"} =>
        /\ Len(results) = cur - 1
        /\ Len(port_log) = Len(results)
        /\ cur_log # <<>> => cur <= Len(work)
        /\ \A j \in 1..Len(results) : results[j].instruction_number = OutId(work[j])
        /\ (bpc = "done" /\ stage \in NonJoinStages \ {"merge"}) =>
              /\ Len(file) = Len(df)
              /\ \A j \in 1..Len(file) : file[j].instruction_number = ExpectedId(j)

(* a step makes at most one port call, and it is a call of the current     *)
(* record                                                                  *)
OneCallPerStep ==
    /\ Len(cur_log') <= Len(cur_log) + 1
    /\ Len(port_log') > Len(port_log) =>
          /\ Len(port_log') = Len(port_log) + 1
          /\ Len(port_log'[Len(port_log')]) <= Len(cur_log) + 1
          /\ cur' = cur + 1

NumberedLines(text) == Cardinality({j \in 1..Len(text) : text[j].num > 0})

(* C26: in every output row, rows written after a failed unit included,    *)
(* the recorded constraint count equals the number of numbered constraint  *)
(* lines fed in for the record: num_constraints in fit_batch rows and      *)
(* total_constraints in evaluate_batch rows.                               *)
C26_CountEqualsInput ==
    /\ (fn = "fit_batch_row" /\ res # <<>>) =>
          res[1].num_constraints = NumberedLines(arg.constraints)
    /\ (fn = "evaluate_batch_row" /\ res # <<>>) =>
          res[1].total_constraints = NumberedLines(arg.constraints)


---------------------------------------------------------------------------
(***************************************************************************)
(* Claims about the usage ledger (checked under SpecLedger)                *)
(***************************************************************************)
RECURSIVE SumTokens(_)
SumTokens(records) ==
    IF records = <<>> THEN 0
    ELSE Head(records).tokens + SumTokens(Tail(records))

RECURSIVE SumValues(_, _)
SumValues(f, keys) ==
    IF keys = {} THEN 0
    ELSE LET p == CHOOSE q \in keys : TRUE
         IN  f[p] + SumValues(f, keys \ {p})

(* a returned total is the sum of the token counts of the records appended *)
(* before the query and the sum of the per-provider totals                 *)
LedgerConsistent ==
    usage.at >= 0 =>
        /\ usage.total_tokens = SumTokens(SubSeq(logged, 1, usage.at))
        /\ usage.total_tokens = SumValues(usage.by_provider, DOMAIN usage.by_provider)
        /\ DOMAIN usage.by_provider =
              {logged[j].provider : j \in 1..usage.at}

(* a step leaves every line of the file as it was *)
AppendOnly ==
    /\ Len(usage_file') >= Len(usage_file)
    /\ \A j \in 1..Len(usage_file) : usage_file'[j] = usage_file[j]

(* C27: the usage ledger is append-only and consistent: after any sequence *)
(* of log_usage calls every earlier record is unchanged, the total_tokens  *)
(* of get_total_usage equals the sum of the token counts of all records    *)
(* appended, and it equals the sum of the by_provider values.              *)
C27_LedgerAppendOnlyConsistent == []LedgerConsistent /\ [][AppendOnly]_vars

(* C27 witness: three records of two providers, with and without metadata, *)
(* and a query that returned their total of 12                             *)
C27_Witness ==
    /\ lpc = "run" /\ Len(logged) = 3 /\ usage.at = 3
    /\ usage.total_tokens = 12
    /\ DOMAIN usage.by_provider = Providers
    /\ \E j \in 1..3 : logged[j].metadata = ""
    /\ \E j \in 1..3 : logged[j].metadata # ""


(* C28: the file a stage writes for fully successful records has a column  *)
(* set that contains the required columns of the stage's schema:           *)
(* merge_pairs against MergedBlogsSchema, both generate_constraints_batch  *)
(* against ConstraintsSchema, generate_batch (deduplicating and plain)     *)
(* against BaseGeneratedSchema, fit_batch against FittedContentSchema and  *)
(* evaluate_batch against EvaluationResultsSchema.                         *)
C28_RequiredColumnsWritten ==
    (fn = "output_columns" /\ res # <<>>) =>
        RequiredColumns(arg.writer) \subseteq res[1]


---------------------------------------------------------------------------
(***************************************************************************)
(* Claims about the retry policy (checked under SpecBatch)                 *)
(***************************************************************************)
(* the retry policy as a function of retry_attempts and the outcomes of    *)
(* the port calls of one unit: the calls stop at the first call that       *)
(* returns, a unit whose calls all raised made retry_attempts calls and    *)
(* failed, and there is one delay between two consecutive calls            *)
FollowsPolicy(log, sleeps, failed) ==
    /\ Len(log) <= retry_attempts
    /\ \A p \in 1..(Len(log) - 1) : log[p] = "raise"
    /\ AllRaise(log) <=> failed
    /\ failed => Len(log) = retry_attempts
    /\ sleeps = IF log = <<>> THEN 0 ELSE Len(log) - 1

(* the stages whose unit is one of merge_pair,                             *)
(* generate_constraints_for_content, generate_constraints_for_pair,        *)
(* generate_base_content, fit_content, replace_constraints,                *)
(* summarize_content and evaluate_content                                  *)
PolicyStages == CoreStages \ {"pairwise"}

(* the outcome of record j: the unit raised, or, in the evaluation loop of *)
(* coherence_eval, no attempt returned                                     *)
RecordFailed(j) == unit_failed[j] \/ (stage = "coh_eval" /\ AllRaise(port_log[j]))

AttemptSucceeded(item, log, p) ==
    /\ log[p] # "raise"
    /\ ~UnitPostRaises(item)
    /\ (RetriesOnNoParse /\ log[p] = "noparse") => p = retry_attempts

(* the attempts of the finished units and of the unit under way *)
AttemptsInTurn ==
    stage \in CoreStages =>
        /\ \A j \in 1..Len(port_log) :
              /\ Len(port_log[j]) <= retry_attempts
              /\ \A p \in 1..(Len(port_log[j]) - 1) :
                    ~AttemptSucceeded(work[j], port_log[j], p)
              /\ sleep_log[j] = IF port_log[j] = <<>> THEN 0 ELSE Len(port_log[j]) - 1
              /\ unit_failed[j] =>
                    /\ Len(port_log[j]) = retry_attempts
                    /\ retry_attempts >= 1 =>
                          ~AttemptSucceeded(work[j], port_log[j], retry_attempts)
              /\ ~unit_failed[j] =>
                    /\ port_log[j] # <<>>
                    /\ AttemptSucceeded(work[j], port_log[j], Len(port_log[j]))
        /\ (bpc = "loop" /\ cur <= Len(work)) =>
              /\ Len(cur_log) < retry_attempts \/ cur_log = <<>>
              /\ cur_sleeps = Len(cur_log)
              /\ attempt = Len(cur_log) + 1
              /\ \A p \in 1..Len(cur_log) : ~AttemptSucceeded(CurItem, cur_log, p)

(* the unit of record k is over: its row was appended or the loop was left *)
UnitOver(k) == cur > k \/ bpc # "loop"

(* C30: in each core stage unit, attempts are made one after another up to *)
(* retry_attempts: the unit returns at the first attempt that succeeds and *)
(* makes no port call after it, waits the fixed delay exactly once between *)
(* two consecutive attempts and never after the last attempt, and always   *)
(* terminates, either returning a result or raising after the last failed  *)
(* attempt.                                                                *)
C30_AttemptsInTurnAndTerminate ==
    /\ []AttemptsInTurn
    /\ \A k \in 1..(MaxRecords + 1) :
          (bpc = "loop" /\ cur = k /\ k <= Len(work)) ~> UnitOver(k)

(* C30 witness: generate_base_content raised after two failed attempts and *)
(* one delay, and the next unit returned at its first attempt              *)
C30_Witness ==
    /\ stage = "base" /\ retry_attempts = 2 /\ Len(port_log) = 2
    /\ port_log[1] = <<"raise", "raise">> /\ sleep_log[1] = 1 /\ unit_failed[1]
    /\ port_log[2] = <<"ok">> /\ sleep_log[2] = 0 /\ ~unit_failed[2]


---------------------------------------------------------------------------
(***************************************************************************)
(* Further claims about the batch loops (checked under SpecBatch)          *)
(***************************************************************************)
(* C31: when the constraint-generation response parses to an empty         *)
(* constraint list the unit does not retry: that call is the unit's last   *)
(* port call, and the batch row is written with constraints empty and      *)
(* tokens_used equal to the call's token count, unlike a retry-exhausted   *)
(* row, whose tokens_used is 0.                                            *)
C31_EmptyParseNotRetried ==
    stage \in {"cgen", "ccgen"} =>
        /\ \A p \in 1..Len(cur_log) : cur_log[p] # "noparse"
        /\ \A j \in 1..Len(port_log) :
              /\ \A p \in 1..Len(port_log[j]) :
                    port_log[j][p] = "noparse" =>
                        /\ p = Len(port_log[j])
                        /\ ~unit_failed[j]
                        /\ results[j].content = ""
                        /\ results[j].tokens_used \in TokenValues
                        /\ results[j].tokens_used # 0
              /\ unit_failed[j] =>
                    results[j].content = "" /\ results[j].tokens_used = 0

(* C31 witness: the common-constraint generator, with a retry left, got a  *)
(* response without constraints at its first call and wrote the row        *)
C31_Witness ==
    /\ stage = "ccgen" /\ retry_attempts = 2 /\ Len(port_log) >= 1
    /\ port_log[1] = <<"noparse">>
    /\ results[1].content = "" /\ results[1].tokens_used = 7

---------------------------------------------------------------------------
(***************************************************************************)
(* Claims about the clients and the usage ledger (checked under            *)
(* SpecClients)                                                            *)
(***************************************************************************)
(* C32: every service call that returned is recorded exactly once in the   *)
(* usage ledger, with its provider and the token count it returned, so a   *)
(* total queried after the calls is the sum of the token counts the calls  *)
(* returned; for the wrappers and for summarize_content with either client *)
C32_EachCallLoggedOnce ==
    /\ Len(logged) = Len(calls)
    /\ \A j \in 1..Min(Len(logged), Len(calls)) :
          /\ logged[j].provider = calls[j].provider
          /\ logged[j].tokens = calls[j].tokens
    /\ usage.at = Len(logged) => usage.total_tokens = SumTokens(calls)

(* the rows of the file are the first rows completed, in input order *)
FileIsPrefix ==
    /\ Len(file) <= Len(results)
    /\ file = SubSeq(results, 1, Len(file))

(* C38: in merge_pairs with an output path and an input indexed 0..n-1, at *)
(* every loop boundary the persisted file is a prefix, in input order, of  *)
(* the rows completed so far, fewer than save_interval completed rows are  *)
(* not yet persisted, and at return the file holds all n rows.             *)
C38_MergePersistsPrefix ==
    stage = "merge" =>
        /\ bpc = "loop" =>
              /\ FileIsPrefix
              /\ Len(results) - Len(file) < save_interval
              /\ \A j \in 1..Len(results) : results[j].instruction_number = OutId(work[j])
        /\ bpc = "done" =>
              /\ file = results
              /\ Len(file) = Len(df)

(* C38 witness: a run with save_interval 2 whose first record failed, at   *)
(* the loop boundary after the second record, with both rows in the file   *)
C38_Witness ==
    /\ stage = "merge" /\ bpc = "loop" /\ save_interval = 2
    /\ Len(results) = 2 /\ file = results /\ unit_failed[1]

(* the constraints_df records whose instruction_number occurs in base_df *)
MatchedRecords ==
    {j \in 1..Len(df) :
        \E k \in 1..Len(base_df) :
            base_df[k].instruction_number = df[j].instruction_number}

(* C39: fit_batch writes exactly one output row for each constraints_df    *)
(* record whose instruction_number occurs in base_df, and invokes the unit *)
(* once per such record, also when base_df has several rows with the same  *)
(* instruction_number.                                                     *)
C39_OneRowPerMatchedRecord ==
    (stage = "fit" /\ bpc = "done") =>
        /\ Len(results) = Cardinality(MatchedRecords)
        /\ Len(port_log) = Cardinality(MatchedRecords)

---------------------------------------------------------------------------
(***************************************************************************)
(* Further claims about the samplers                                       *)
(***************************************************************************)
Unused == IF mode = "distinct" THEN (0..(n - 1)) \ used_ids ELSE i..(n - 1)

(* the later documents that document i may still be paired with *)
Partners == {j \in (i + 1)..(n - 1) : mode = "distinct" => j \notin used_ids}

NoCandidateInBand ==
    \/ mode = "distinct" /\ i \in used_ids
    \/ \A j \in Partners : ~InBand(Similarity(i, j))

NothingInBand == \A p \in PairsOf(n) : ~InBand(sim[p])

(* a step taken with no in-band candidate or fewer than two unused         *)
(* documents leaves the pairs found so far as they are                     *)
KeepsPairs ==
    (spc = "loop" /\ i < n /\ (NoCandidateInBand \/ Cardinality(Unused) < 2))
        => pairs' = pairs

(* C33 (checked under SpecSamplerFair): when no candidate pair is in-band, *)
(* or fewer than two unused documents remain, both samplers end and return *)
(* the pairs found so far: such a step changes no pair, every run reaches  *)
(* its return, and the result is empty when no pair of the corpus is       *)
(* in-band.                                                                *)
C33_EndsWithPairsSoFar ==
    /\ <>(spc = "done")
    /\ [](NothingInBand => pairs = <<>>)
    /\ [][KeepsPairs]_vars

(* C33 witness: a distinct-mode run over four documents that asked for     *)
(* more, found one pair, went through the two documents left without an    *)
(* in-band pair and returned the one pair                                  *)
C33_Witness ==
    /\ mode = "distinct" /\ spc = "done" /\ n = 4 /\ i >= n
    /\ max_pairs >= 2 /\ Len(pairs) = 1


(* the largest corpus whose later documents all fit in one sample *)
WholeSample == SampleCap + 1

(* C35 (checked under SpecSampler): for at most 51 documents, when the     *)
(* distinct-mode sampler returns fewer than max_pairs pairs, no two        *)
(* documents that are both unused at return have an in-band similarity.    *)
C35_MaximalMatching ==
    (mode = "distinct" /\ spc = "done" /\ n <= WholeSample /\ Len(pairs) < max_pairs) =>
        \A p \in PairsOf(n) :
            (p[1] \notin used_ids /\ p[2] \notin used_ids) => ~InBand(sim[p])

(* C35 witness: a run over four documents that asked for more than the one *)
(* pair it returned, with an in-band pair in its result and two documents  *)
(* left over                                                               *)
C35_Witness ==
    /\ mode = "distinct" /\ spc = "done" /\ n = 4
    /\ Len(pairs) = 1 /\ max_pairs > 1
    /\ Cardinality((0..(n - 1)) \ used_ids) = 2
    /\ InBand(sim[<<pairs[1].blog_1_id, pairs[1].blog_2_id>>])

(* C36 (checked under SpecSampler): in both samplers every emitted pair    *)
(* has blog_1_id < blog_2_id, the pairs are emitted in non-decreasing      *)
(* blog_1_id order, and no pair (i, j) is emitted twice.                   *)
C36_OrderedPairsOnce ==
    /\ \A k \in 1..Len(pairs) : pairs[k].blog_1_id < pairs[k].blog_2_id
    /\ \A k \in 1..(Len(pairs) - 1) : pairs[k].blog_1_id <= pairs[k + 1].blog_1_id
    /\ \A k, l \in 1..Len(pairs) :
          (k # l) =>
              <<pairs[k].blog_1_id, pairs[k].blog_2_id>>
                  # <<pairs[l].blog_1_id, pairs[l].blog_2_id>>

(* C36 witness: a plain-mode run that returned three pairs, two of them    *)
(* with the same first document                                            *)
C36_Witness ==
    /\ mode = "plain" /\ spc = "done" /\ Len(pairs) = 3
    /\ pairs[1].blog_1_id = pairs[2].blog_1_id
    /\ pairs[2].blog_1_id < pairs[3].blog_1_id

---------------------------------------------------------------------------
(***************************************************************************)
(* Further claims about the text functions (checked under SpecText)        *)
(***************************************************************************)
(* C34: in every row evaluate_batch_pairwise writes for a comparison whose *)
(* unit returned, order is 0 or 1 and tells what was sent: with order 0    *)
(* content A was the baseline and B the comparison, with order 1 the       *)
(* reverse; when the parser returned no result, the row has every score    *)
(* 0, every preference empty, the raw response and its token count.        *)
C34_OrderRecordsAssignment ==
    fn = "evaluate_batch_pairwise_row" =>
        \A k \in 1..Len(res) :
            /\ res[k].order \in {0, 1}
            /\ res[k].order = 0 =>
                  /\ res[k].content_a = arg.baseline_content
                  /\ res[k].content_b = arg.comp_content
            /\ res[k].order = 1 =>
                  /\ res[k].content_a = arg.comp_content
                  /\ res[k].content_b = arg.baseline_content
            /\ res[k].content_baseline = arg.baseline_content
            /\ res[k].content_comparison = arg.comp_content
            /\ QualityParseEvaluation(arg.evaluation) = Sentinel =>
                  /\ \A c \in Categories : res[k].scores[c] = <<0, 0>>
                  /\ \A c \in Categories \cup {"overall"} : res[k].prefs[c] = ""
                  /\ res[k].evaluation_raw = arg.evaluation
                  /\ res[k].eval_tokens = arg.tokens

(* C34 witness: a comparison sent in reverse order whose response has no   *)
(* score but names an overall winner                                       *)
C34_Witness ==
    /\ fn = "evaluate_batch_pairwise_row" /\ Len(res) >= 1
    /\ arg.order = 1 /\ arg.baseline_content # arg.comp_content
    /\ res[1].content_a = arg.comp_content
    /\ QualityParseEvaluation(arg.evaluation) = Sentinel
    /\ arg.prefs["overall"] = "A"
    /\ res[1].prefs["overall"] = ""


(* C37: every row a batch loop writes for a retry-exhausted record is      *)
(* rejected by the row check of the stage's schema: the failure rows of    *)
(* generate_constraints_batch by ConstraintsSchema, of generate_batch by   *)
(* BaseGeneratedSchema, of fit_batch by FittedContentSchema and of         *)
(* evaluate_batch by EvaluationResultsSchema.                              *)
C37_FailureRowsRejected ==
    fn = "validate_failure_row" =>
        \A k \in 1..Len(res) : res[k].kind = "invalid" /\ res[k].message # ""

(* C37 witness: the failure row of fit_batch for a record with a positive  *)
(* instruction number, checked as read back from the file                  *)
C37_Witness ==
    /\ fn = "validate_failure_row" /\ Len(res) >= 1
    /\ arg.stage = "fit" /\ arg.instruction_num = 1 /\ arg.read_back
    /\ res[1].message = "num_constraints must be 39"

=============================================================================
